---- MODULE Spec2Model ----
(***************************************************************************)
(* Model of the agent-chat flow: the chat endpoint and the five event      *)
(* steps (Preprocess Message, LLM Filter Extraction, Pinecone Retrieval,   *)
(* OpenAI Response Generation, Flow Completion) chained by topics, with     *)
(* the Handit tracing adapter.  External collaborators (OpenAI, Pinecone,  *)
(* the Handit SDK, the clock, the random source) are inputs of the actions *)
(* drawn from bounded sets of outcomes.                                     *)
(***************************************************************************)
EXTENDS Integers, Sequences, FiniteSets, TLC

(***************************************************************************)
(* Bounds of the model.                                                     *)
(***************************************************************************)
MaxFlows == 1
MaxCalls == 4
MaxMsgLen == 2

(***************************************************************************)
(* JavaScript values.  A string-typed optional is either a string or       *)
(* UNDEF; structured optionals are tagged records.                          *)
(***************************************************************************)
UNDEF == "<undefined>"
Undef == [t |-> "undefined"]
Null == [t |-> "null"]
Obj(fields) == [t |-> "object", v |-> fields]
Arr(items) == [t |-> "array", v |-> items]
Str(s) == [t |-> "string", s |-> s]
Num(n) == [t |-> "number", n |-> n]
Bool(b) == [t |-> "boolean", b |-> b]

\* JavaScript truthiness of a tagged value.
TruthyV(v) ==
  CASE v.t \in {"undefined", "null"} -> FALSE
    [] v.t = "string" -> v.s \notin {"", <<>>}
    [] v.t = "number" -> v.n # 0
    [] v.t = "boolean" -> v.b
    [] OTHER -> TRUE
\* Property read on an object: an absent key reads as undefined.
Get(o, key) == IF key \in DOMAIN o THEN o[key] ELSE Undef

\* JavaScript truthiness of an optional string: undefined and "" are falsy.
Truthy(s) == s \notin {UNDEF, ""}

\* A string is the sequence of its characters.  The messages sent to the
\* endpoint: the empty one, and one that trimming shortens on both sides.
Chars == {" ", "a"}
Messages == {<<>>, <<" ", "a", " ">>}
\* Every string of at most n characters.
StringsUpTo(n) == UNION {[1..k -> Chars] : k \in 0..n}

\* The clock values new Date().toISOString() may return.
Times == {"t1"}

\* The ids generateFlowId may return (timestamp + random suffix).
FlowIds == {"flow-1", "flow-2"}
generateFlowId == FlowIds

RECURSIVE TrimStart(_)
TrimStart(s) == IF s # <<>> /\ Head(s) = " " THEN TrimStart(Tail(s)) ELSE s
RECURSIVE TrimEnd(_)
TrimEnd(s) ==
  IF s # <<>> /\ s[Len(s)] = " " THEN TrimEnd(SubSeq(s, 1, Len(s) - 1)) ELSE s
\* String.prototype.trim
TrimLeading(s) == TrimStart(s)
Trim(s) == TrimEnd(TrimStart(s))

(***************************************************************************)
(* Topics and step configuration.                                           *)
(***************************************************************************)
Topics ==
  {"message-received", "preprocess-complete", "fetch-context",
   "context-retrieved", "response-generated", "response-ready"}
Stages == {"Preprocess", "ExtractFilters", "Retrieve", "Generate", "Complete"}
subscribes ==
  [Preprocess |-> "message-received", ExtractFilters |-> "preprocess-complete",
   Retrieve |-> "fetch-context", Generate |-> "context-retrieved",
   Complete |-> "response-generated"]
emits ==
  [Preprocess |-> {"preprocess-complete"}, ExtractFilters |-> {"fetch-context"},
   Retrieve |-> {"context-retrieved"}, Generate |-> {"response-generated"},
   Complete |-> {}]
agentsTrackingConfig ==
  [preprocessMessage |-> "metaAgentK40-toolpreprocessp6",
   llmFiltersExtraction |-> "metaAgentK40-llmFiltersrv",
   ragRetrieval |-> "metaAgentK40-toolragRetrievvz",
   responseGeneration |-> "metaAgentK40-responseGecp"]

(***************************************************************************)
(* Tracing adapter.  A callback outcome is [k |-> "return", v |-> value]   *)
(* or [k |-> "throw", e |-> message].                                       *)
(***************************************************************************)
Return(v) == [k |-> "return", v |-> v]
Throw(e) == [k |-> "throw", e |-> e]
TracingError == "handit: tracing failed"

\* What the SDK's traceAgentNode may do around the callback: run it and hand
\* its outcome back, fail before running it, or fail after it has run.
TraceOutcomes == {"ok", "open_fails", "close_fails"}
NoError == "none"
traceAgentNode(agentNodeId, externalId, cb, tr) ==
  [out |-> IF tr = "ok" THEN cb ELSE Throw(TracingError),
   called |-> tr # "open_fails",
   span |-> [agentNodeId |-> agentNodeId, externalId |-> externalId]]

IsObject(v) == v.t \in {"object", "array"}
traceWithHanditRequiresId(agentNodeId, flowId, cb, tr) ==
  IF Truthy(flowId)
  THEN traceAgentNode(agentNodeId, flowId, cb, tr)
  ELSE [traceAgentNode(agentNodeId, flowId, cb, tr) EXCEPT
          !.out = Throw(TracingError)]
traceWithHandit(agentNodeId, flowId, cb, tr) ==
  LET tagged == IF cb.k = "return" /\ IsObject(cb.v) /\ Truthy(flowId)
                THEN Return([cb.v EXCEPT !._handidFlowId = flowId])
                ELSE cb
  IN traceAgentNode(agentNodeId, flowId, tagged, tr)

\* endAgentTracingHandit: the backend calls it makes, the errors it logs and
\* whether it raises. be is the outcome of the SDK's endAgentTracing.
EndOutcomes == {"ok", "throws"}
endAgentTracingHanditNoCatch(flowId, be) ==
  IF ~Truthy(flowId)
  THEN [calls |-> <<>>, logged |-> <<>>, raised |-> FALSE]
  ELSE [calls |-> <<flowId>>, logged |-> <<>>, raised |-> be = "throws"]
endAgentTracingHandit(flowId, be) ==
  IF ~Truthy(flowId)
  THEN [calls |-> <<>>, logged |-> <<>>, raised |-> FALSE]
  ELSE [calls |-> <<flowId>>,
        logged |-> IF be = "throws" THEN <<flowId>> ELSE <<>>,
        raised |-> FALSE]

(***************************************************************************)
(* Handler results: the events emitted, whether an exception left the      *)
(* handler, the spans opened and the session closes issued.                 *)
(***************************************************************************)
Event(topic, data) == [topic |-> topic, data |-> data]
Result(evs, spans, caught) ==
  [emits |-> evs, raised |-> FALSE, spans |-> spans, ends |-> <<>>,
   caught |-> caught]

\* Chat endpoint (POST /chat)
ChatApiHandlerAnswersFirst(body, now) ==
  [emits |-> <<>>,
   raised |-> FALSE, spans |-> <<>>, ends |-> <<>>, caught |-> NoError,
   response |-> [status |-> 200,
                 body |-> [status |-> "processing",
                           message |-> "Your message is being processed"]]]
ChatApiHandler(body, now) ==
  [emits |-> <<Event("message-received",
                     [message |-> body.message, timestamp |-> now])>>,
   raised |-> FALSE, spans |-> <<>>, ends |-> <<>>, caught |-> NoError,
   response |-> [status |-> 200,
                 body |-> [status |-> "processing",
                           message |-> "Your message is being processed"]]]

\* Preprocess Message
PreprocessInputValid(d) ==
  /\ DOMAIN d = {"message", "timestamp"}
  /\ d.message \in Seq(Chars)
PreprocessHandler(input, flowId, now, tr) ==
  LET cb == Return(Str(Trim(input.message)))
      r == traceWithHandit(agentsTrackingConfig.preprocessMessage, flowId, cb, tr)
      ts == IF Truthy(input.timestamp) THEN input.timestamp ELSE now
      processed == IF r.out.k = "return" THEN r.out.v.s ELSE input.message
  IN Result(<<Event("preprocess-complete",
                    [originalMessage |-> input.message,
                     processedMessage |-> processed,
                     timestamp |-> ts,
                     _handidFlowId |-> flowId])>>,
            <<r.span>>, IF r.out.k = "return" THEN NoError ELSE r.out.e)

(***************************************************************************)
(* LLM Filter Extraction.                                                   *)
(***************************************************************************)
\* Text the completion provider may put in a message: JSON text carries the
\* value it parses to; any other text does not parse.
JsonText(v) == [t |-> "string", s |-> "json", json |-> TRUE, v |-> v]
GarbageText == [t |-> "string", s |-> "not json", json |-> FALSE]
EmptyText == [t |-> "string", s |-> "", json |-> FALSE]
JSONParse(text) == IF text.json THEN Return(text.v) ELSE Throw("SyntaxError")

Answer(df, mf, eq) ==
  [t |-> "object", dateFilters |-> df, metadataFilters |-> mf,
   extractedQuery |-> eq, _handidFlowId |-> UNDEF]
SomeDateFilters == Obj([date_str |-> Str("2023-05-15")])
SomeMetadataFilters == Obj([status |-> Str("failed")])
Choice(content) == [message |-> [t |-> "object", content |-> content]]
Completion(choices) == [k |-> "response", choices |-> choices]
ProviderError == "provider error"
MissingKey == "missing api key"
ProviderThrows == [k |-> "throw"]

\* What the completion provider may answer to the filter-extraction request.
FilterCompletions ==
  {ProviderThrows, Completion(<<>>), Completion(<<Choice(Null)>>),
   Completion(<<Choice(GarbageText)>>),
   Completion(<<Choice(JsonText(Answer(Null, Null, <<"a">>)))>>),
   Completion(<<Choice(JsonText(Answer(SomeDateFilters, SomeMetadataFilters, <<>>)))>>)}

NoFilters(msg) == Answer(Undef, Undef, msg)
extractFiltersRethrows(msg, llm) ==
  IF llm.k = "throw" THEN Throw(ProviderError)
  ELSE IF Len(llm.choices) > 0 /\ TruthyV(llm.choices[1].message)
  THEN LET c == llm.choices[1].message.content
           content == IF TruthyV(c) THEN c ELSE JsonText(Answer(Undef, Undef, <<>>))
           parsed == JSONParse(content)
       IN IF parsed.k = "return"
          THEN Return([parsed.v EXCEPT !.extractedQuery = msg])
          ELSE parsed
  ELSE Return(NoFilters(msg))
extractFiltersKeepsQuery(msg, llm) ==
  IF llm.k = "throw" THEN Throw(ProviderError)
  ELSE IF Len(llm.choices) > 0 /\ TruthyV(llm.choices[1].message)
  THEN LET c == llm.choices[1].message.content
           content == IF TruthyV(c) THEN c ELSE JsonText(Answer(Undef, Undef, <<>>))
           parsed == JSONParse(content)
       IN IF parsed.k = "return"
          THEN Return(parsed.v)
          ELSE Return(NoFilters(msg))
  ELSE Return(NoFilters(msg))
extractFilters(msg, llm) ==
  IF llm.k = "throw" THEN Throw(ProviderError)
  ELSE IF Len(llm.choices) > 0 /\ TruthyV(llm.choices[1].message)
  THEN LET c == llm.choices[1].message.content
           content == IF TruthyV(c) THEN c ELSE JsonText(Answer(Undef, Undef, <<>>))
           parsed == JSONParse(content)
       IN IF parsed.k = "return"
          THEN Return([parsed.v EXCEPT !.extractedQuery = msg])
          ELSE Return(NoFilters(msg))
  ELSE Return(NoFilters(msg))

FilterExtractionInputValid(d) ==
  /\ DOMAIN d = {"originalMessage", "processedMessage", "timestamp", "_handidFlowId"}
  /\ d.timestamp # UNDEF
\* The catch block: the original message, no filters.
FilterExtractionFallbackNoId(input) ==
  <<Event("fetch-context",
          [originalMessage |-> input.originalMessage,
           processedMessage |-> input.processedMessage,
           timestamp |-> input.timestamp,
           dateFilters |-> Undef, metadataFilters |-> Undef,
           _handidFlowId |-> UNDEF])>>
FilterExtractionFallbackNullFilters(input) ==
  <<Event("fetch-context",
          [originalMessage |-> input.originalMessage,
           processedMessage |-> input.processedMessage,
           timestamp |-> input.timestamp,
           dateFilters |-> Null, metadataFilters |-> Null,
           _handidFlowId |-> input._handidFlowId])>>
FilterExtractionFallback(input) ==
  <<Event("fetch-context",
          [originalMessage |-> input.originalMessage,
           processedMessage |-> input.processedMessage,
           timestamp |-> input.timestamp,
           dateFilters |-> Undef, metadataFilters |-> Undef,
           _handidFlowId |-> input._handidFlowId])>>
FilterExtractionHandler(input, key, llm, tr) ==
  LET flowId == input._handidFlowId
      fallback == FilterExtractionFallback(input)
  IN IF ~Truthy(key) THEN Result(fallback, <<>>, MissingKey)
     ELSE LET r == traceWithHandit(agentsTrackingConfig.llmFiltersExtraction,
                                   flowId,
                                   extractFilters(input.processedMessage, llm), tr)
          IN IF r.out.k = "return"
             THEN Result(<<Event("fetch-context",
                            [originalMessage |-> input.originalMessage,
                             processedMessage |->
                               IF r.out.v.extractedQuery # <<>>
                               THEN r.out.v.extractedQuery
                               ELSE input.processedMessage,
                             timestamp |-> input.timestamp,
                             dateFilters |-> r.out.v.dateFilters,
                             metadataFilters |-> r.out.v.metadataFilters,
                             _handidFlowId |-> flowId])>>,
                         <<r.span>>, NoError)
             ELSE Result(fallback, <<r.span>>, r.out.e)

(***************************************************************************)
(* Pinecone Retrieval.                                                      *)
(***************************************************************************)
topK == 5
\* z.record(z.any()).optional()
OptionalRecord(v) == v.t \in {"undefined", "object"}
RetrievalInputValid(d) ==
  /\ DOMAIN d = {"originalMessage", "processedMessage", "timestamp",
                 "dateFilters", "metadataFilters", "_handidFlowId"}
  /\ d.timestamp # UNDEF
  /\ OptionalRecord(d.dateFilters)
  /\ OptionalRecord(d.metadataFilters)

\* The filter is [$and |-> sequence of <<key, value>>] or undefined.
Picked(o, keys) ==
  IF o.t = "object"
  THEN SelectSeq(keys, LAMBDA key : TruthyV(Get(o.v, key)))
  ELSE <<>>
buildFilterExpressionAlwaysAnd(dateFilters, metadataFilters) ==
  LET dk == Picked(dateFilters, <<"year", "month", "day", "date_str">>)
      mk == Picked(metadataFilters, <<"environment", "status">>)
      entries == [i \in 1..Len(dk) |-> <<dk[i], dateFilters.v[dk[i]]>>]
                 \o [i \in 1..Len(mk) |-> <<mk[i], metadataFilters.v[mk[i]]>>]
  IN Obj([and |-> entries])
buildFilterExpression(dateFilters, metadataFilters) ==
  LET dk == Picked(dateFilters, <<"year", "month", "day", "date_str">>)
      mk == Picked(metadataFilters, <<"environment", "status">>)
      entries == [i \in 1..Len(dk) |-> <<dk[i], dateFilters.v[dk[i]]>>]
                 \o [i \in 1..Len(mk) |-> <<mk[i], metadataFilters.v[mk[i]]>>]
  IN IF Len(entries) > 0 THEN Obj([and |-> entries]) ELSE Undef

\* The options queryPinecone hands to index.query.
queryPinecone(vector, filter) ==
  [vector |-> vector, topK |-> topK, includeMetadata |-> TRUE,
   filter |-> filter]

\* Stored metadata: a record with input/output/created_at, an entry as the
\* upload script stores it, and an insight.
Metadatas ==
  {[input |-> Str("q"), output |-> Str("r"), created_at |-> Str("d")],
   [type |-> Str("entry"), output |-> Str("r"), created_at |-> Str("d"),
    input_text |-> Str("q")],
   [type |-> Str("insight"), problem |-> Str("p"), solution |-> Str("s")]}
Matches == {[metadata |-> md, score |-> Num(1)] : md \in Metadatas}
QueryResults(matches) ==
  [k |-> "results",
   v |-> [t |-> "object", matches |-> matches, _handidFlowId |-> UNDEF]]
\* What the vector store may answer to a query: an error, an answer without
\* matches, no match, or one match of each kind of record.
QueryOutcomes ==
  {ProviderThrows, QueryResults(Undef), QueryResults(Arr(<<>>))}
  \cup {QueryResults(Arr(<<m>>)) : m \in Matches}
EmbeddingOutcomes == {"ok", "throws"}

ContextItemScoreOnly(match) ==
  [input |-> Undef, output |-> Undef, created_at |-> Undef,
   score |-> match.score, problem |-> Undef, solution |-> Undef,
   type |-> Undef]
ContextItem(match) ==
  [input |-> Get(match.metadata, "input"),
   output |-> Get(match.metadata, "output"),
   created_at |-> Get(match.metadata, "created_at"),
   score |-> match.score,
   problem |-> Get(match.metadata, "problem"),
   solution |-> Get(match.metadata, "solution"),
   type |-> Get(match.metadata, "type")]
\* new OpenAI({apiKey}) raises when no key is configured.
OpenAIClient(key) == IF Truthy(key) THEN Return(Obj(<<>>)) ELSE Throw(MissingKey)

\* The catch block: continue without context.
RetrievalFallbackLoops(input) ==
  <<Event("fetch-context",
          [originalMessage |-> input.originalMessage,
           processedMessage |-> input.processedMessage,
           timestamp |-> input.timestamp,
           dateFilters |-> Undef, metadataFilters |-> Undef,
           _handidFlowId |-> input._handidFlowId])>>
RetrievalFallbackNoContext(input) ==
  <<Event("context-retrieved",
          [originalMessage |-> input.originalMessage,
           processedMessage |-> input.processedMessage,
           timestamp |-> input.timestamp,
           context |-> Undef,
           dateFilters |-> Undef, metadataFilters |-> Undef,
           _handidFlowId |-> input._handidFlowId])>>
RetrievalFallback(input) ==
  <<Event("context-retrieved",
          [originalMessage |-> input.originalMessage,
           processedMessage |-> input.processedMessage,
           timestamp |-> input.timestamp,
           context |-> Arr(<<>>),
           dateFilters |-> Undef, metadataFilters |-> Undef,
           _handidFlowId |-> input._handidFlowId])>>
RetrievalHandler(input, key, emb, q, tr) ==
  LET flowId == input._handidFlowId
      fallback == RetrievalFallback(input)
      filterExpression ==
        buildFilterExpression(input.dateFilters, input.metadataFilters)
      cb == IF q.k = "throw" THEN Throw(ProviderError) ELSE Return(q.v)
      r == traceWithHandit(agentsTrackingConfig.ragRetrieval, flowId, cb, tr)
      context ==
        IF r.out.v.matches.t = "array"
        THEN Arr([i \in 1..Len(r.out.v.matches.v) |->
                    ContextItem(r.out.v.matches.v[i])])
        ELSE Arr(<<>>)
  IN IF OpenAIClient(key).k = "throw"
     THEN Result(fallback, <<>>, OpenAIClient(key).e)
     ELSE IF emb = "throws"
     THEN Result(fallback, <<>>, ProviderError)
     ELSE IF r.out.k = "return"
     THEN Result(<<Event("context-retrieved",
                    [originalMessage |-> input.originalMessage,
                     processedMessage |-> input.processedMessage,
                     timestamp |-> input.timestamp,
                     context |-> context,
                     dateFilters |-> input.dateFilters,
                     metadataFilters |-> input.metadataFilters,
                     _handidFlowId |-> flowId])>>,
                 <<r.span>>, NoError)
     ELSE Result(fallback, <<r.span>>, r.out.e)

(***************************************************************************)
(* OpenAI Response Generation.                                              *)
(***************************************************************************)
IsString(v) == v.t = "string"
GenerationContextItemValid(item) ==
  /\ IsString(item.input) /\ IsString(item.output)
  /\ IsString(item.created_at) /\ item.score.t = "number"
GenerationInputValid(d) ==
  /\ {"originalMessage", "processedMessage", "timestamp", "context",
      "_handidFlowId"} \subseteq DOMAIN d
  /\ d.timestamp # UNDEF
  /\ d.context.t \in {"undefined", "array"}
  /\ d.context.t = "array" =>
       \A i \in 1..Len(d.context.v) : GenerationContextItemValid(d.context.v[i])

NoContextText == "No relevant previous conversations found."
\* The text is kept as the sequence of its blocks; a block is the sequence of
\* its lines, a line a label and the value interpolated after it.
FormatItemCapped(item) ==
  IF item.type = Str("insight")
  THEN <<<<"--- Previous Insight ---">>, <<"Problem: ", item.problem>>,
         <<"Date: ", item.created_at>>,
         <<"Similarity Score: ", item.score>>>>
  ELSE <<<<"--- Previous User Query ---">>, <<"User: ", item.input>>,
         <<"Date: ", item.created_at>>,
         <<"Similarity Score: ", item.score>>>>
FormatItem(item) ==
  IF item.type = Str("insight")
  THEN <<<<"--- Previous Insight ---">>, <<"Problem: ", item.problem>>,
         <<"Solution: ", item.solution>>, <<"Date: ", item.created_at>>,
         <<"Similarity Score: ", item.score>>>>
  ELSE <<<<"--- Previous User Query ---">>, <<"User: ", item.input>>,
         <<"Agent: ", item.output>>, <<"Date: ", item.created_at>>,
         <<"Similarity Score: ", item.score>>>>
formatContext(context) ==
  IF context.t # "array" \/ Len(context.v) = 0
  THEN Return(<<<<<<NoContextText>>>>>>)
  ELSE IF \E i \in 1..Len(context.v) : context.v[i].score.t # "number"
  THEN Throw("TypeError")
  ELSE Return([i \in 1..Len(context.v) |-> FormatItem(context.v[i])])

CouldNotGenerate ==
  "I apologize, but I couldn't generate a response. Please try again."
Apology ==
  "I apologize, but I encountered an error while generating a response. Please try again later."
\* What the completion provider may answer to the generation request.
GenerationCompletions ==
  {ProviderThrows, Completion(<<>>), Completion(<<Choice(Null)>>),
   Completion(<<Choice(Str(""))>>), Completion(<<Choice(Str("answer"))>>)}
generateResponse(promptText, contextText, llm) ==
  IF llm.k = "throw" THEN Throw(ProviderError)
  ELSE IF Len(llm.choices) = 0 THEN Throw("TypeError")
  ELSE LET content == IF TruthyV(llm.choices[1].message)
                      THEN llm.choices[1].message.content ELSE Undef
       IN Return(Str(IF TruthyV(content) THEN content.s ELSE CouldNotGenerate))

\* The catch block: the apology, with the error recorded.
GenerationFallbackSilent(input, e) == <<>>
GenerationFallbackNoError(input, e) ==
  <<Event("response-generated",
          [originalMessage |-> input.originalMessage,
           processedMessage |-> input.processedMessage,
           timestamp |-> input.timestamp,
           response |-> Apology,
           context |-> Undef,
           error |-> UNDEF,
           _handidFlowId |-> input._handidFlowId])>>
GenerationFallbackProcessed(input, e) ==
  <<Event("response-generated",
          [originalMessage |-> input.processedMessage,
           processedMessage |-> input.processedMessage,
           timestamp |-> input.timestamp,
           response |-> Apology,
           context |-> Undef,
           error |-> e,
           _handidFlowId |-> input._handidFlowId])>>
GenerationFallback(input, e) ==
  <<Event("response-generated",
          [originalMessage |-> input.originalMessage,
           processedMessage |-> input.processedMessage,
           timestamp |-> input.timestamp,
           response |-> Apology,
           context |-> Undef,
           error |-> e,
           _handidFlowId |-> input._handidFlowId])>>
GenerationHandler(input, key, llm, tr) ==
  LET flowId == input._handidFlowId
      fallback(e) == GenerationFallback(input, e)
      contextString == formatContext(input.context)
      r == traceWithHandit(agentsTrackingConfig.responseGeneration, flowId,
                           generateResponse(input.processedMessage,
                                            contextString.v, llm), tr)
  IN IF OpenAIClient(key).k = "throw"
     THEN Result(fallback(OpenAIClient(key).e), <<>>, OpenAIClient(key).e)
     ELSE IF contextString.k = "throw"
     THEN Result(fallback(contextString.e), <<>>, contextString.e)
     ELSE IF r.out.k = "return"
     THEN Result(<<Event("response-generated",
                    [originalMessage |-> input.originalMessage,
                     processedMessage |-> input.processedMessage,
                     timestamp |-> input.timestamp,
                     response |-> r.out.v.s,
                     context |-> input.context,
                     error |-> UNDEF,
                     _handidFlowId |-> flowId])>>,
                 <<r.span>>, NoError)
     ELSE Result(fallback(r.out.e), <<r.span>>, r.out.e)

(***************************************************************************)
(* Flow Completion.                                                         *)
(***************************************************************************)
CompletionInputValid(d) ==
  /\ {"originalMessage", "processedMessage", "timestamp", "response",
      "context", "_handidFlowId"} \subseteq DOMAIN d
  /\ d.timestamp # UNDEF
  /\ d.response # UNDEF
  /\ d.context.t \in {"undefined", "array"}
CompletionHandlerSkipsClose(input, be) ==
  [emits |-> <<>>, raised |-> FALSE, spans |-> <<>>, ends |-> <<>>,
   caught |-> NoError, logged |-> <<>>]
CompletionHandler(input, be) ==
  LET flowId == input._handidFlowId
      e == IF Truthy(flowId)
           THEN endAgentTracingHandit(flowId, be)
           ELSE [calls |-> <<>>, logged |-> <<>>, raised |-> FALSE]
  IN [emits |-> <<>>, raised |-> e.raised, spans |-> <<>>, ends |-> e.calls,
      caught |-> NoError, logged |-> e.logged]

\* Response Handler: subscribes to response-ready, emits nothing.
ResponseHandlerInputValid(d) ==
  /\ DOMAIN d = {"originalMessage", "generatedResponse", "timestamp", "error"}
  /\ d.generatedResponse # UNDEF /\ d.timestamp # UNDEF
\* What the handler stores under last_conversation.
ResponseHandlerHandler(input) ==
  Obj([query |-> input.originalMessage,
       response |-> input.generatedResponse,
       timestamp |-> input.timestamp,
       hasError |-> Bool(Truthy(input.error))])

InputValid(stage, d) ==
  CASE stage = "Preprocess" -> PreprocessInputValid(d)
    [] stage = "ExtractFilters" -> FilterExtractionInputValid(d)
    [] stage = "Retrieve" -> RetrievalInputValid(d)
    [] stage = "Generate" -> GenerationInputValid(d)
    [] stage = "Complete" -> CompletionInputValid(d)

(***************************************************************************)
(* The handler of a stage applied to an input under the outcomes out of its *)
(* external calls.                                                          *)
(***************************************************************************)
StageResult(stage, input, key, out) ==
  CASE stage = "Preprocess" ->
         PreprocessHandler(input, out.flowId, out.now, out.tr)
    [] stage = "ExtractFilters" ->
         FilterExtractionHandler(input, key, out.llm, out.tr)
    [] stage = "Retrieve" ->
         RetrievalHandler(input, key, out.emb, out.q, out.tr)
    [] stage = "Generate" ->
         GenerationHandler(input, key, out.llm, out.tr)
    [] stage = "Complete" ->
         CompletionHandler(input, out.be)

(***************************************************************************)
(* The reference extractors (pattern matching over the query string) and   *)
(* the reference filter builder.  A string is the sequence of its          *)
(* characters.                                                              *)
(***************************************************************************)
UpperCase == <<"A", "B", "C", "D", "E", "F", "G", "H", "I", "J", "K", "L", "M", "N", "O", "P", "Q", "R", "S", "T", "U", "V", "W", "X", "Y", "Z">>
LowerCase == <<"a", "b", "c", "d", "e", "f", "g", "h", "i", "j", "k", "l", "m", "n", "o", "p", "q", "r", "s", "t", "u", "v", "w", "x", "y", "z">>
Digits == <<"0", "1", "2", "3", "4", "5", "6", "7", "8", "9">>
\* String.prototype.toLowerCase
LowerChar(c) ==
  IF \E k \in 1..26 : UpperCase[k] = c
  THEN LowerCase[CHOOSE k \in 1..26 : UpperCase[k] = c]
  ELSE c
ToLowerCase(s) == [i \in 1..Len(s) |-> LowerChar(s[i])]
\* String.prototype.includes
Includes(s, w) ==
  \E i \in 1..(Len(s) - Len(w) + 1) : SubSeq(s, i, i + Len(w) - 1) = w
\* The regular expression classes \d and \w.
IsDigit(c) == \E k \in 1..10 : Digits[k] = c
IsWordChar(c) ==
  \/ IsDigit(c) \/ c = "_"
  \/ \E k \in 1..26 : UpperCase[k] = c \/ LowerCase[k] = c
DigitValue(c) == (CHOOSE k \in 1..10 : Digits[k] = c) - 1
\* parseInt of a string of digits
RECURSIVE ParseInt(_)
ParseInt(s) ==
  IF s = <<>> THEN 0
  ELSE 10 * ParseInt(SubSeq(s, 1, Len(s) - 1)) + DigitValue(s[Len(s)])
\* The leftmost of the positions where a pattern matches.
Leftmost(S) == CHOOSE i \in S : \A j \in S : i <= j

\* /(\d{4}-\d{2}-\d{2})/ matches at position i
ExactDateAtStart(q, i) ==
  /\ i = 1 /\ Len(q) >= 10
  /\ \A k \in {0, 1, 2, 3, 5, 6, 8, 9} : IsDigit(q[i + k])
  /\ q[i + 4] = "-" /\ q[i + 7] = "-"
ExactDateAt(q, i) ==
  /\ i >= 1 /\ i + 9 <= Len(q)
  /\ \A k \in {0, 1, 2, 3, 5, 6, 8, 9} : IsDigit(q[i + k])
  /\ q[i + 4] = "-" /\ q[i + 7] = "-"
ExactDateMatches(q) == {i \in 1..Len(q) : ExactDateAt(q, i)}
\* /\b(20\d{2})\b/ matches at position i
YearAtNoBoundary(q, i) ==
  /\ i >= 1 /\ i + 3 <= Len(q)
  /\ q[i] = "2" /\ q[i + 1] = "0" /\ IsDigit(q[i + 2]) /\ IsDigit(q[i + 3])
YearAt(q, i) ==
  /\ i >= 1 /\ i + 3 <= Len(q)
  /\ q[i] = "2" /\ q[i + 1] = "0" /\ IsDigit(q[i + 2]) /\ IsDigit(q[i + 3])
  /\ i = 1 \/ ~IsWordChar(q[i - 1])
  /\ i + 3 = Len(q) \/ ~IsWordChar(q[i + 4])
YearMatches(q) == {i \in 1..Len(q) : YearAt(q, i)}

monthNames ==
  <<<<"j", "a", "n", "u", "a", "r", "y">>,
    <<"f", "e", "b", "r", "u", "a", "r", "y">>,
    <<"m", "a", "r", "c", "h">>,
    <<"a", "p", "r", "i", "l">>,
    <<"m", "a", "y">>,
    <<"j", "u", "n", "e">>,
    <<"j", "u", "l", "y">>,
    <<"a", "u", "g", "u", "s", "t">>,
    <<"s", "e", "p", "t", "e", "m", "b", "e", "r">>,
    <<"o", "c", "t", "o", "b", "e", "r">>,
    <<"n", "o", "v", "e", "m", "b", "e", "r">>,
    <<"d", "e", "c", "e", "m", "b", "e", "r">>>>
Yesterday == <<"y", "e", "s", "t", "e", "r", "d", "a", "y">>
Today == <<"t", "o", "d", "a", "y">>
LastWeek == <<"l", "a", "s", "t", " ", "w", "e", "e", "k">>
\* What new Date() and the date arithmetic on it give: today's date, the
\* date of the day before and the date seven days before, as ISO dates.
Clocks ==
  {[today |-> <<"2", "0", "2", "4", "-", "0", "3", "-", "0", "1">>, yesterday |-> <<"2", "0", "2", "4", "-", "0", "2", "-", "2", "9">>, weekAgo |-> <<"2", "0", "2", "4", "-", "0", "2", "-", "2", "3">>],
   [today |-> <<"2", "0", "2", "3", "-", "0", "5", "-", "1", "6">>, yesterday |-> <<"2", "0", "2", "3", "-", "0", "5", "-", "1", "5">>, weekAgo |-> <<"2", "0", "2", "3", "-", "0", "5", "-", "0", "9">>]}
extractDateFiltersMonthFirst(query, now) ==
  LET lower == ToLowerCase(query)
      named == {i \in 1..Len(monthNames) : Includes(lower, monthNames[i])}
      years == YearMatches(query)
      year == ParseInt(SubSeq(query, Leftmost(years), Leftmost(years) + 3))
      exact == ExactDateMatches(query)
  IN IF exact # {}
     THEN Obj([date_str |-> Str(SubSeq(query, Leftmost(exact), Leftmost(exact) + 9))])
     ELSE IF named # {}
     THEN IF years # {}
          THEN Obj([month |-> Num(Leftmost(named)), year |-> Num(year)])
          ELSE Obj([month |-> Num(Leftmost(named))])
     ELSE IF Includes(lower, Yesterday)
     THEN Obj([date_str |-> Str(now.yesterday)])
     ELSE IF Includes(lower, Today)
     THEN Obj([date_str |-> Str(now.today)])
     ELSE IF Includes(lower, LastWeek)
     THEN Obj([dateRange |-> Obj([start |-> Str(now.weekAgo),
                                  end |-> Str(now.today)])])
     ELSE IF years # {}
     THEN Obj([year |-> Num(year)])
     ELSE Null
extractDateFilters(query, now) ==
  LET lower == ToLowerCase(query)
      named == {i \in 1..Len(monthNames) : Includes(lower, monthNames[i])}
      years == YearMatches(query)
      year == ParseInt(SubSeq(query, Leftmost(years), Leftmost(years) + 3))
      exact == ExactDateMatches(query)
  IN IF exact # {}
     THEN Obj([date_str |-> Str(SubSeq(query, Leftmost(exact), Leftmost(exact) + 9))])
     ELSE IF Includes(lower, Yesterday)
     THEN Obj([date_str |-> Str(now.yesterday)])
     ELSE IF Includes(lower, Today)
     THEN Obj([date_str |-> Str(now.today)])
     ELSE IF Includes(lower, LastWeek)
     THEN Obj([dateRange |-> Obj([start |-> Str(now.weekAgo),
                                  end |-> Str(now.today)])])
     ELSE IF named # {}
     THEN IF years # {}
          THEN Obj([month |-> Num(Leftmost(named)), year |-> Num(year)])
          ELSE Obj([month |-> Num(Leftmost(named))])
     ELSE IF years # {}
     THEN Obj([year |-> Num(year)])
     ELSE Null

environments ==
  <<<<"p", "r", "o", "d", "u", "c", "t", "i", "o", "n">>,
    <<"d", "e", "v", "e", "l", "o", "p", "m", "e", "n", "t">>,
    <<"s", "t", "a", "g", "i", "n", "g">>,
    <<"t", "e", "s", "t">>>>
statuses ==
  <<<<"s", "u", "c", "c", "e", "s", "s">>,
    <<"f", "a", "i", "l", "e", "d">>,
    <<"e", "r", "r", "o", "r">>,
    <<"p", "e", "n", "d", "i", "n", "g">>>>
Correct == <<"c", "o", "r", "r", "e", "c", "t">>
Incorrect == <<"i", "n", "c", "o", "r", "r", "e", "c", "t">>
Wrong == <<"w", "r", "o", "n", "g">>
\* A for-loop over a keyword list that assigns on every keyword the query
\* contains: the set of list positions whose keyword occurs.
Occurring(list, lower) == {i \in 1..Len(list) : Includes(lower, list[i])}
Last(S) == CHOOSE i \in S : \A j \in S : j <= i
\* The value the loop leaves assigned: the loop has no break.
AssignedByLoop(list, lower) == list[Last(Occurring(list, lower))]
\* The correctness branch: 'correct' is tested first.
Correctness(lower) ==
  IF Includes(lower, Correct) THEN Bool(TRUE)
  ELSE IF Includes(lower, Incorrect) \/ Includes(lower, Wrong) THEN Bool(FALSE)
  ELSE Undef
extractMetadataFilters(query) ==
  LET lower == ToLowerCase(query)
      keys == {k \in {"environment", "status", "is_correct"} :
                 CASE k = "environment" -> Occurring(environments, lower) # {}
                   [] k = "status" -> Occurring(statuses, lower) # {}
                   [] k = "is_correct" -> Correctness(lower) # Undef}
  IN IF keys = {} THEN Null
     ELSE Obj([k \in keys |->
                 CASE k = "environment" -> Str(AssignedByLoop(environments, lower))
                   [] k = "status" -> Str(AssignedByLoop(statuses, lower))
                   [] k = "is_correct" -> Correctness(lower)])

referenceBuildFilterExpressionMetaOnly(dateFilters, metadataFilters) ==
  IF TruthyV(metadataFilters) /\ DOMAIN metadataFilters.v # {}
  THEN Obj(metadataFilters.v) ELSE Null
\* The reference builder: the date filters (a range as $gte/$lte bounds on
\* date_str), then the metadata filters assigned over them.
referenceBuildFilterExpression(dateFilters, metadataFilters) ==
  LET range == Get(dateFilters.v, "dateRange")
      fromDate ==
        IF ~TruthyV(dateFilters) THEN <<>>
        ELSE IF TruthyV(range)
        THEN [date_str |-> Obj([gte |-> Get(range.v, "start"),
                                lte |-> Get(range.v, "end")])]
        ELSE dateFilters.v
      fromMeta == IF TruthyV(metadataFilters) THEN metadataFilters.v ELSE <<>>
      filters == [k \in DOMAIN fromDate \cup DOMAIN fromMeta |->
                    IF k \in DOMAIN fromMeta THEN fromMeta[k] ELSE fromDate[k]]
  IN IF DOMAIN filters # {} THEN Obj(filters) ELSE Null

(***************************************************************************)
(* State.                                                                   *)
(***************************************************************************)
VARIABLES
  topics,     \* topic -> set of pending events [traceId, data]
  started,    \* number of requests the chat endpoint has accepted
  history,    \* traceId -> the stages that ran for it, with the id each carried
  caught,     \* traceId -> the error its latest handler caught and logged
  halted,     \* events rejected by input validation: [traceId, stage]
  uncaught,   \* handler executions an exception escaped from: [traceId, stage]
  spans,      \* traceId -> the spans its latest handler opened with the backend
  endCalls,   \* flow id -> number of endAgentTracing calls made for it
  invoked,    \* number of direct invocations of endAgentTracingHandit
  lastCall,   \* the most recent direct invocation of endAgentTracingHandit
  env,        \* the process environment
  ext,        \* the latest call of a reference extractor and what it returned
  state       \* traceId -> what the Response Handler stored under last_conversation

\* No extractor has been called yet.
NoExtraction ==
  [query |-> <<>>, pieces |-> 0,
   now |-> [today |-> <<>>, yesterday |-> <<>>, weekAgo |-> <<>>],
   dateFilters |-> Undef, metadataFilters |-> Undef]

vars ==
  <<topics, started, history, caught, halted, uncaught, spans, endCalls,
    invoked, lastCall, env, ext, state>>

Flows == 1..MaxFlows
NoCall == [flowId |-> UNDEF, be |-> "ok", res |-> endAgentTracingHandit(UNDEF, "ok")]
Envs == [OPENAI_API_KEY : {UNDEF, "sk-key"}]

Init ==
  /\ topics = [t \in Topics |-> {}]
  /\ started = 0
  /\ history = [f \in Flows |-> <<>>]
  /\ caught = [f \in Flows |-> NoError]
  /\ halted = {}
  /\ uncaught = {}
  /\ spans = [f \in Flows |-> {}]
  /\ endCalls = [id \in FlowIds |-> 0]
  /\ invoked = 0
  /\ lastCall = NoCall
  /\ env \in Envs
  /\ ext = NoExtraction
  /\ state = [f \in Flows |-> Undef]

\* The framework's delivery of the events a handler emitted.
Deliver(tp, f, evs) ==
  [t \in Topics |->
     tp[t] \cup {[traceId |-> f, data |-> evs[i].data] :
                   i \in {j \in 1..Len(evs) : evs[j].topic = t}}]
\* An event is handed to its subscriber once.
ConsumeTopic(ev, stage) ==
  [topics EXCEPT ![subscribes[stage]] = {}]
Consume(ev, stage) ==
  [topics EXCEPT ![subscribes[stage]] = @ \ {ev}]
CountEnds(ends) ==
  [id \in FlowIds |->
     endCalls[id] + Cardinality({i \in 1..Len(ends) : ends[i] = id})]
\* What a handler execution leaves in the flow's history: the stage, the
\* correlation id it carried forward, the sessions it closed and whether it
\* handed on a non-empty answer.
Entry(stage, input, res) ==
  [stage |-> stage,
   id |-> IF Len(res.emits) > 0 THEN res.emits[1].data._handidFlowId
          ELSE input._handidFlowId,
   ends |-> res.ends,
   answered |-> CASE stage = "Generate" ->
                       /\ Len(res.emits) > 0
                       /\ res.emits[1].data.response \notin {UNDEF, ""}
                  [] stage = "Complete" -> input.response \notin {UNDEF, ""}
                  [] OTHER -> FALSE]

ChatApi ==
  /\ started < MaxFlows
  /\ \E m \in Messages, now \in Times :
       LET f == started + 1
           res == ChatApiHandler([message |-> m], now)
       IN /\ started' = f
          /\ topics' = Deliver(topics, f, res.emits)
  /\ UNCHANGED <<ext, state>>
  /\ UNCHANGED <<history, caught, halted, uncaught, spans, endCalls, invoked,
                  lastCall, env>>

\* The subscriber of ev's topic ran on it under the outcomes out.
Handled(stage, ev, out) ==
  LET res == StageResult(stage, ev.data, env.OPENAI_API_KEY, out)
  IN /\ topics' = Deliver(Consume(ev, stage), ev.traceId, res.emits)
     /\ history' = [history EXCEPT ![ev.traceId] =
                      Append(@, Entry(stage, ev.data, res))]
     /\ caught' = [caught EXCEPT ![ev.traceId] = res.caught]
     /\ uncaught' = IF res.raised
                    THEN uncaught \cup {[traceId |-> ev.traceId, stage |-> stage]}
                    ELSE uncaught
     /\ spans' = [spans EXCEPT ![ev.traceId] =
                    {res.spans[i] : i \in 1..Len(res.spans)}]
     /\ endCalls' = CountEnds(res.ends)
     /\ UNCHANGED <<started, halted, invoked, lastCall, env, ext, state>>

PreprocessOutcomes == [flowId : generateFlowId, now : Times, tr : TraceOutcomes]
PreprocessMessage ==
  \E ev \in topics[subscribes.Preprocess] :
    /\ PreprocessInputValid(ev.data)
    /\ \E out \in PreprocessOutcomes : Handled("Preprocess", ev, out)

\* The outcome of a call that is not reached is not an input: when the span
\* cannot be opened the wrapped call is not made.
FilterExtractionOutcomes ==
  {o \in [llm : FilterCompletions, tr : TraceOutcomes] :
     o.tr = "open_fails" => o.llm = ProviderThrows}
FilterExtraction ==
  \E ev \in topics[subscribes.ExtractFilters] :
    /\ FilterExtractionInputValid(ev.data)
    /\ \E out \in FilterExtractionOutcomes : Handled("ExtractFilters", ev, out)

RetrievalOutcomes ==
  {o \in [emb : EmbeddingOutcomes, q : QueryOutcomes, tr : TraceOutcomes] :
     /\ o.emb = "throws" => o.tr = "ok" /\ o.q = ProviderThrows
     /\ o.tr = "open_fails" => o.q = ProviderThrows}
PineconeRetrieval ==
  \E ev \in topics[subscribes.Retrieve] :
    /\ RetrievalInputValid(ev.data)
    /\ \E out \in RetrievalOutcomes : Handled("Retrieve", ev, out)

GenerationOutcomes ==
  {o \in [llm : GenerationCompletions, tr : TraceOutcomes] :
     o.tr = "open_fails" => o.llm = ProviderThrows}
OpenAIGeneration ==
  \E ev \in topics[subscribes.Generate] :
    /\ GenerationInputValid(ev.data)
    /\ \E out \in GenerationOutcomes : Handled("Generate", ev, out)

CompletionOutcomes == [be : EndOutcomes]
FlowCompletion ==
  \E ev \in topics[subscribes.Complete] :
    /\ CompletionInputValid(ev.data)
    /\ \E out \in CompletionOutcomes : Handled("Complete", ev, out)

\* An event that fails the subscriber's input schema is reported and the
\* handler is not invoked: the flow halts.
ValidationReject ==
  \E stage \in Stages :
    \E ev \in topics[subscribes[stage]] :
      /\ ~InputValid(stage, ev.data)
      /\ topics' = Consume(ev, stage)
      /\ halted' = halted \cup {[traceId |-> ev.traceId, stage |-> stage]}
      /\ UNCHANGED <<started, history, caught, uncaught, spans, endCalls,
                      invoked, lastCall, env, ext, state>>

Steps ==
  \/ PreprocessMessage
  \/ FilterExtraction
  \/ PineconeRetrieval
  \/ OpenAIGeneration
  \/ FlowCompletion
  \/ ValidationReject

Next ==
  \/ ChatApi
  \/ Steps

Spec == Init /\ [][Next]_vars

\* The framework goes on handing pending events to their subscribers.
FairSpec == Spec /\ WF_vars(Steps)

(***************************************************************************)
(* Stages fed directly: one schema-conforming event, with or without a     *)
(* correlation id, is pending on some topic.                                *)
(***************************************************************************)
OptionalIds == {UNDEF, "", "flow-1"}
SomeContexts ==
  {Undef, Arr(<<>>),
   Arr(<<[input |-> Str("q"), output |-> Str("r"), created_at |-> Str("d"),
          score |-> Num(1), problem |-> Undef, solution |-> Undef,
          type |-> Undef]>>)}
PayloadsOf(topic) ==
  CASE topic = "message-received" ->
         [message : Messages \cup StringsUpTo(MaxMsgLen),
          timestamp : {UNDEF, "t0"}]
    [] topic = "preprocess-complete" ->
         [originalMessage : Messages, processedMessage : Messages,
          timestamp : {"t0"}, _handidFlowId : OptionalIds]
    [] topic = "fetch-context" ->
         [originalMessage : Messages, processedMessage : Messages,
          timestamp : {"t0"}, dateFilters : {Undef, SomeDateFilters},
          metadataFilters : {Undef, SomeMetadataFilters},
          _handidFlowId : OptionalIds]
    [] topic = "context-retrieved" ->
         [originalMessage : Messages, processedMessage : Messages,
          timestamp : {"t0"}, context : SomeContexts,
          _handidFlowId : OptionalIds]
    [] topic = "response-generated" ->
         [originalMessage : Messages, processedMessage : Messages,
          timestamp : {"t0"}, response : {"answer", Apology},
          context : SomeContexts, _handidFlowId : OptionalIds]
    [] topic = "response-ready" ->
         [originalMessage : Messages, generatedResponse : {"answer", Apology},
          timestamp : {UNDEF, "t0"}, error : {UNDEF, ProviderError}]

InitAny ==
  /\ \E t \in Topics : \E d \in PayloadsOf(t) :
       topics = [u \in Topics |->
                   IF u = t THEN {[traceId |-> 1, data |-> d]} ELSE {}]
  /\ started = MaxFlows
  /\ history = [f \in Flows |-> <<>>]
  /\ caught = [f \in Flows |-> NoError]
  /\ halted = {}
  /\ uncaught = {}
  /\ spans = [f \in Flows |-> {}]
  /\ endCalls = [id \in FlowIds |-> 0]
  /\ invoked = 0
  /\ lastCall = NoCall
  /\ env \in Envs
  /\ ext = NoExtraction
  /\ state = [f \in Flows |-> Undef]

SpecAny == InitAny /\ [][Steps]_vars

(***************************************************************************)
(* The pipeline together with the Response Handler, which is handed the    *)
(* events of the topic response-ready; one such event may be pending from  *)
(* the start.                                                               *)
(***************************************************************************)
ResponseHandler ==
  \E ev \in topics["response-ready"] :
    /\ topics' = [topics EXCEPT !["response-ready"] = @ \ {ev}]
    /\ IF ResponseHandlerInputValid(ev.data)
       THEN /\ state' = [state EXCEPT ![ev.traceId] =
                           ResponseHandlerHandler(ev.data)]
            /\ UNCHANGED halted
       ELSE /\ halted' = halted \cup {[traceId |-> ev.traceId,
                                       stage |-> "ResponseHandler"]}
            /\ UNCHANGED state
    /\ UNCHANGED <<started, history, caught, uncaught, spans, endCalls,
                    invoked, lastCall, env, ext>>

InitResponseReady ==
  \/ Init
  \/ InitAny /\ topics["response-ready"] # {}
SpecResponseHandler ==
  /\ InitResponseReady
  /\ [][Next \/ ResponseHandler]_vars
  /\ WF_vars(Steps \/ ResponseHandler)

(***************************************************************************)
(* Two flows in flight at once: the endpoint has accepted two requests     *)
(* with different messages, and the stages' handlers run for them in any   *)
(* order.                                                                   *)
(***************************************************************************)
TwoFlows == {1, 2}
MessageOf == <<<<" ", "a", " ">>, <<>>>>
InitTwoFlows ==
  /\ topics = [t \in Topics |->
                 IF t = "message-received"
                 THEN {[traceId |-> f,
                        data |-> [message |-> MessageOf[f], timestamp |-> "t1"]] :
                         f \in TwoFlows}
                 ELSE {}]
  /\ started = 2
  /\ history = [f \in TwoFlows |-> <<>>]
  /\ caught = [f \in TwoFlows |-> NoError]
  /\ halted = {}
  /\ uncaught = {}
  /\ spans = [f \in TwoFlows |-> {}]
  /\ endCalls = [id \in FlowIds |-> 0]
  /\ invoked = 0
  /\ lastCall = NoCall
  /\ env \in Envs
  /\ ext = NoExtraction
  /\ state = [f \in TwoFlows |-> Undef]

SpecTwoFlows == InitTwoFlows /\ [][Steps]_vars

(***************************************************************************)
(* The session close called directly, any number of times.                  *)
(***************************************************************************)
EndTraceCall ==
  /\ invoked < MaxCalls
  /\ \E flowId \in FlowIds \cup {UNDEF, ""}, be \in EndOutcomes :
       LET res == endAgentTracingHandit(flowId, be)
       IN /\ endCalls' = CountEnds(res.calls)
          /\ lastCall' = [flowId |-> flowId, be |-> be, res |-> res]
  /\ invoked' = invoked + 1
  /\ UNCHANGED <<topics, started, history, caught, halted, uncaught, spans, env,
                  ext, state>>

SpecEndTrace == Init /\ [][EndTraceCall]_vars

(***************************************************************************)
(* The reference extractors called on their own, on the queries that can   *)
(* be written with up to MaxPieces pieces of a vocabulary.                  *)
(***************************************************************************)
MaxPieces == 3
DatePieces ==
  {<<"2", "0", "2", "3", "-", "0", "5", "-", "1", "5">>,
   <<"y", "e", "s", "t", "e", "r", "d", "a", "y">>,
   <<"T", "o", "d", "a", "y">>,
   <<"l", "a", "s", "t", " ", "w", "e", "e", "k">>,
   <<"M", "a", "r", "c", "h">>,
   <<"m", "a", "y">>,
   <<"2", "0", "2", "1">>,
   <<"1", "9", "9", "9">>,
   <<" ">>}
MetaPieces ==
  {<<"p", "r", "o", "d", "u", "c", "t", "i", "o", "n">>,
   <<"T", "e", "s", "t">>,
   <<"s", "t", "a", "g", "i", "n", "g">>,
   <<"f", "a", "i", "l", "e", "d">>,
   <<"e", "r", "r", "o", "r">>,
   <<"c", "o", "r", "r", "e", "c", "t">>,
   <<"i", "n", "c", "o", "r", "r", "e", "c", "t">>,
   <<"w", "r", "o", "n", "g">>,
   <<" ">>}
Pipeline ==
  <<topics, started, history, caught, halted, uncaught, spans, endCalls,
    invoked, lastCall, env, state>>

ExtractDate ==
  /\ ext.pieces < MaxPieces
  /\ \E piece \in DatePieces, now \in Clocks :
       LET query == ext.query \o piece
       IN ext' = [query |-> query, pieces |-> ext.pieces + 1, now |-> now,
                  dateFilters |-> extractDateFilters(query, now),
                  metadataFilters |-> Undef]
  /\ UNCHANGED Pipeline

ExtractMeta ==
  /\ ext.pieces < MaxPieces
  /\ \E piece \in MetaPieces :
       LET query == ext.query \o piece
       IN ext' = [query |-> query, pieces |-> ext.pieces + 1, now |-> ext.now,
                  dateFilters |-> Undef,
                  metadataFilters |-> extractMetadataFilters(query)]
  /\ UNCHANGED Pipeline

SpecDateFilters == Init /\ [][ExtractDate]_vars
SpecMetadataFilters == Init /\ [][ExtractMeta]_vars

(***************************************************************************)
(* The two filter builders called on their own, on the filters an          *)
(* extractor may hand them.                                                 *)
(***************************************************************************)
DateFilterInputs ==
  {Undef, Null, Obj(<<>>),
   Obj([date_str |-> Str("2023-05-15")]),
   Obj([month |-> Num(3)]),
   Obj([month |-> Num(3), year |-> Num(2023)]),
   Obj([year |-> Num(2023)]),
   Obj([day |-> Num(15)]),
   Obj([dateRange |-> Obj([start |-> Str("2023-05-09"),
                           end |-> Str("2023-05-16")])])}
MetadataFilterInputs ==
  {Undef, Null, Obj(<<>>),
   Obj([environment |-> Str("production")]),
   Obj([status |-> Str("failed")]),
   Obj([environment |-> Str("test"), status |-> Str("error")]),
   Obj([is_correct |-> Bool(TRUE)]),
   Obj([is_correct |-> Bool(FALSE)]),
   Obj([status |-> Str("pending"), is_correct |-> Bool(FALSE)])}

\* The stage's builder runs only on filters its input schema accepts.
BuildFilters ==
  /\ \E df \in DateFilterInputs, mf \in MetadataFilterInputs :
       ext' = [dateFilters |-> df, metadataFilters |-> mf,
               reference |-> referenceBuildFilterExpression(df, mf),
               queryOptions |->
                 IF OptionalRecord(df) /\ OptionalRecord(mf)
                 THEN queryPinecone("embedding", buildFilterExpression(df, mf))
                 ELSE Undef]
  /\ UNCHANGED Pipeline

SpecFilterBuilders == Init /\ [][BuildFilters]_vars

(***************************************************************************)
(* The filter test script: testQuery on each of its sample queries and on  *)
(* the query of the specification's first end-to-end scenario.              *)
(***************************************************************************)
queries ==
  {<<"S", "h", "o", "w", " ", "m", "e", " ", "a", "g", "e", "n", "t", " ",
     "i", "n", "t", "e", "r", "a", "c", "t", "i", "o", "n", "s", " ",
     "f", "r", "o", "m", " ", "y", "e", "s", "t", "e", "r", "d", "a",
     "y">>,
   <<"W", "h", "a", "t", " ", "w", "e", "r", "e", " ", "t", "h", "e", " ",
     "c", "o", "m", "m", "o", "n", " ", "f", "a", "i", "l", "u", "r",
     "e", "s", " ", "l", "a", "s", "t", " ", "m", "o", "n", "t", "h",
     "?">>,
   <<"H", "o", "w", " ", "d", "i", "d", " ", "t", "h", "e", " ", "a", "g",
     "e", "n", "t", " ", "p", "e", "r", "f", "o", "r", "m", " ", "i",
     "n", " ", "t", "h", "e", " ", "p", "r", "o", "d", "u", "c", "t",
     "i", "o", "n", " ", "e", "n", "v", "i", "r", "o", "n", "m", "e",
     "n", "t", "?">>,
   <<"G", "i", "v", "e", " ", "m", "e", " ", "i", "n", "s", "i", "g", "h",
     "t", "s", " ", "f", "r", "o", "m", " ", "c", "o", "m", "p", "l",
     "e", "t", "e", "d", " ", "t", "a", "s", "k", "s", " ", "i", "n",
     " ", "M", "a", "r", "c", "h", " ", "2", "0", "2", "3">>,
   <<"W", "h", "a", "t", " ", "w", "e", "r", "e", " ", "t", "h", "e", " ",
     "m", "o", "s", "t", " ", "c", "o", "m", "m", "o", "n", " ", "e",
     "r", "r", "o", "r", "s", " ", "i", "n", " ", "t", "h", "e", " ",
     "p", "r", "o", "d", "u", "c", "t", "i", "o", "n", " ", "e", "n",
     "v", "i", "r", "o", "n", "m", "e", "n", "t", " ", "l", "a", "s",
     "t", " ", "w", "e", "e", "k", "?">>,
   <<"S", "h", "o", "w", " ", "m", "e", " ", "a", "l", "l", " ", "c", "o",
     "r", "r", "e", "c", "t", " ", "r", "e", "s", "p", "o", "n", "s",
     "e", "s", " ", "f", "r", "o", "m", " ", "2", "0", "2", "3", "-",
     "0", "5", "-", "1", "5">>,
   <<"W", "h", "a", "t", " ", "w", "e", "r", "e", " ", "t", "h", "e", " ",
     "i", "s", "s", "u", "e", "s", " ", "i", "n", " ", "d", "e", "v",
     "e", "l", "o", "p", "m", "e", "n", "t", " ", "e", "n", "v", "i",
     "r", "o", "n", "m", "e", "n", "t", " ", "i", "n", " ", "J", "a",
     "n", "u", "a", "r", "y", "?">>,
   <<"S", "h", "o", "w", " ", "m", "e", " ", "p", "e", "n", "d", "i", "n",
     "g", " ", "t", "a", "s", "k", "s", " ", "w", "i", "t", "h", " ",
     "e", "r", "r", "o", "r", "s">>}
ShowMeFailures ==
  <<"S", "h", "o", "w", " ", "m", "e", " ", "f", "a", "i", "l", "u", "r",
     "e", "s", " ", "f", "r", "o", "m", " ", "2", "0", "2", "3", "-",
     "0", "5", "-", "1", "5">>
\* What index.query may do for the script: fail, or answer with matches.
TestQueryOutcomes ==
  {ProviderThrows, QueryResults(Arr(<<>>)),
   QueryResults(Arr(<<[metadata |-> [type |-> Str("entry")],
                       score |-> Num(1)]>>))}

testQuery ==
  /\ \E query \in queries \cup {ShowMeFailures}, now \in Clocks,
        emb \in EmbeddingOutcomes, q \in TestQueryOutcomes :
       LET dateFilters == extractDateFilters(query, now)
           metadataFilters == extractMetadataFilters(query)
           filterExpression ==
             referenceBuildFilterExpression(dateFilters, metadataFilters)
           queryOptions ==
             IF TruthyV(filterExpression)
             THEN [vector |-> "embedding", topK |-> 3,
                   includeMetadata |-> TRUE, filter |-> filterExpression]
             ELSE [vector |-> "embedding", topK |-> 3,
                   includeMetadata |-> TRUE]
       IN ext' = [query |-> query, now |-> now,
                  dateFilters |-> dateFilters,
                  metadataFilters |-> metadataFilters,
                  filterExpression |-> filterExpression,
                  queried |-> IF emb = "throws" THEN Undef ELSE Obj(queryOptions),
                  answer |-> IF emb = "throws" THEN ProviderThrows ELSE q]
  /\ UNCHANGED Pipeline

SpecTestQuery == Init /\ [][testQuery]_vars

(***************************************************************************)
(* The Retrieve stage run on its own on the answers of the store, which    *)
(* returns at most the topK matches it is asked for, and the formatter of  *)
(* the Generate stage applied to the context Retrieve emits.               *)
(***************************************************************************)
StoreAnswer == IF "matches" \in DOMAIN ext THEN ext.matches ELSE <<>>
RetrieveInputs ==
  {d \in PayloadsOf("fetch-context") :
     /\ d.originalMessage = <<" ", "a", " ">> /\ d.processedMessage = <<>>
     /\ d.dateFilters = Undef /\ d.metadataFilters = Undef}

RetrieveMatches ==
  /\ \E input \in RetrieveInputs, m \in Matches,
        emb \in EmbeddingOutcomes, tr \in TraceOutcomes :
       LET options == queryPinecone("embedding", Undef)
           matches == Append(StoreAnswer, m)
           res == RetrievalHandler(input, env.OPENAI_API_KEY, emb,
                                   QueryResults(Arr(matches)), tr)
       IN /\ Len(matches) <= options.topK
          /\ ext' = [matches |-> matches, input |-> input,
                     emits |-> res.emits, caught |-> res.caught,
                     formatted |-> formatContext(res.emits[1].data.context)]
  /\ UNCHANGED Pipeline

SpecRetrieveMatches == Init /\ [][RetrieveMatches]_vars

(***************************************************************************)
(* The tracing wrapper called on its own, around callbacks that return a   *)
(* string, a number, null, an object or an array, or that raise.           *)
(***************************************************************************)
CallbackOutcomes ==
  {Return(Str("text")), Return(Num(1)), Return(Null),
   Return([t |-> "object", content |-> Str("text"), _handidFlowId |-> UNDEF]),
   Return([t |-> "array", v |-> <<>>, _handidFlowId |-> UNDEF]),
   Throw(ProviderError)}

TracedCall ==
  /\ \E cb \in CallbackOutcomes, flowId \in OptionalIds, tr \in TraceOutcomes :
       ext' = [callback |-> cb, flowId |-> flowId, tr |-> tr,
               traced |-> traceWithHandit(agentsTrackingConfig.ragRetrieval,
                                          flowId, cb, tr)]
  /\ UNCHANGED Pipeline

SpecTracedCall == Init /\ [][TracedCall]_vars

(***************************************************************************)
(* Bulk ingestion (the upload script).  Processed entries are numbered in  *)
(* input order; an embedding call is outstanding from the moment the       *)
(* callback of Promise.all issues it until the provider answers.  Any      *)
(* failure reaches the catch of main, which exits the process.             *)
(***************************************************************************)
batchSize == 100
MaxEntries == 201
MaxInsights == 101

\* Math.ceil(length / batchSize)
BatchCountFloor(length) == length \div batchSize
BatchCount(length) == (length + batchSize - 1) \div batchSize
\* Array.prototype.slice(start, end), with 0 <= start <= end <= length
Slice(arr, start, end) == SubSeq(arr, start + 1, end)
ProcessedEntries(n) == [k \in 1..n |-> k]
UploadRunning == "pc" \in DOMAIN ext

\* The CSV files are read and the entries processed.
ReadRecords ==
  /\ ~UploadRunning /\ ext = NoExtraction
  /\ \E n \in 0..MaxEntries, m \in {0, MaxInsights} :
       ext' = [processedEntries |-> ProcessedEntries(n), insights |-> m,
               batches |-> BatchCount(n), i |-> 0, pc |-> "loop",
               batch |-> <<>>, outstanding |-> 0,
               upserts |-> <<>>, insightUpserts |-> <<>>]
  /\ UNCHANGED Pipeline

\* One iteration of the batch loop begins: every callback of the batch
\* issues its embedding call before Promise.all is awaited.
StartBatch ==
  /\ UploadRunning /\ ext.pc = "loop" /\ ext.i < ext.batches
  /\ LET start == ext.i * batchSize
         length == Len(ext.processedEntries)
         end == IF start + batchSize < length THEN start + batchSize ELSE length
         batch == Slice(ext.processedEntries, start, end)
     IN ext' = [ext EXCEPT !.batch = batch, !.outstanding = Len(batch),
                           !.pc = "embedding"]
  /\ UNCHANGED Pipeline

\* The loop is over: the embedding calls of all insights are issued at once.
StartInsights ==
  /\ UploadRunning /\ ext.pc = "loop" /\ ext.i >= ext.batches
  /\ ext' = [ext EXCEPT !.batch = <<>>, !.outstanding = ext.insights,
                        !.pc = "insights-embedding"]
  /\ UNCHANGED Pipeline

EmbeddingReturns ==
  /\ UploadRunning /\ ext.pc \in {"embedding", "insights-embedding"}
  /\ ext.outstanding > 0
  /\ ext' = [ext EXCEPT !.outstanding = ext.outstanding - 1]
  /\ UNCHANGED Pipeline

\* An embedding call rejects: Promise.all rejects, main exits.
EmbeddingFails ==
  /\ UploadRunning /\ ext.pc \in {"embedding", "insights-embedding"}
  /\ ext.outstanding > 0
  /\ ext' = [ext EXCEPT !.outstanding = 0, !.pc = "exit"]
  /\ UNCHANGED Pipeline

\* index.upsert(vectors) of the batch, awaited.
UpsertBatch ==
  /\ UploadRunning /\ ext.pc = "embedding" /\ ext.outstanding = 0
  /\ \/ ext' = [ext EXCEPT !.upserts = Append(ext.upserts, ext.batch),
                           !.i = ext.i + 1, !.pc = "loop"]
     \/ ext' = [ext EXCEPT !.pc = "exit"]
  /\ UNCHANGED Pipeline

\* index.upsert(insightVectors), only when there is an insight.
UpsertInsights ==
  /\ UploadRunning /\ ext.pc = "insights-embedding" /\ ext.outstanding = 0
  /\ \/ ext' = [ext EXCEPT
                  !.insightUpserts =
                     IF ext.insights > 0
                     THEN <<[idx \in 1..ext.insights |-> idx - 1]>> ELSE <<>>,
                  !.pc = "done"]
     \/ ext.insights > 0 /\ ext' = [ext EXCEPT !.pc = "exit"]
  /\ UNCHANGED Pipeline

Upload ==
  \/ ReadRecords
  \/ StartBatch
  \/ StartInsights
  \/ EmbeddingReturns
  \/ EmbeddingFails
  \/ UpsertBatch
  \/ UpsertInsights

SpecUpload == Init /\ [][Upload]_vars

(***************************************************************************)
(* The date metadata of ingestion.  A Date is an instant, kept as its UTC  *)
(* calendar date and hour; the process's time zone is an offset in whole   *)
(* hours east of UTC.  created_at is text with a zone designator, text     *)
(* without one (which Date reads as local time), or text Date cannot read. *)
(***************************************************************************)
DaysInMonth(y, m) ==
  LET leap == (y % 4 = 0 /\ y % 100 # 0) \/ y % 400 = 0
  IN IF m = 2 THEN (IF leap THEN 29 ELSE 28)
     ELSE IF m \in {4, 6, 9, 11} THEN 30 ELSE 31
NextDay(d) ==
  IF d.day < DaysInMonth(d.year, d.month) THEN [d EXCEPT !.day = d.day + 1]
  ELSE IF d.month < 12 THEN [year |-> d.year, month |-> d.month + 1, day |-> 1]
  ELSE [year |-> d.year + 1, month |-> 1, day |-> 1]
PrevDay(d) ==
  IF d.day > 1 THEN [d EXCEPT !.day = d.day - 1]
  ELSE IF d.month > 1
  THEN [year |-> d.year, month |-> d.month - 1,
        day |-> DaysInMonth(d.year, d.month - 1)]
  ELSE [year |-> d.year - 1, month |-> 12, day |-> 31]
\* The instant h hours later (earlier for h < 0), |h| < 24.
ShiftHours(t, h) ==
  LET hour == t.hour + h
  IN IF hour >= 24 THEN [date |-> NextDay(t.date), hour |-> hour - 24]
     ELSE IF hour < 0 THEN [date |-> PrevDay(t.date), hour |-> hour + 24]
     ELSE [date |-> t.date, hour |-> hour]
Pad2(n) == <<Digits[(n \div 10) + 1], Digits[(n % 10) + 1]>>
\* date.toISOString().split('T')[0]
ToISODate(t) ==
  Pad2(t.date.year \div 100) \o Pad2(t.date.year % 100) \o <<"-">>
    \o Pad2(t.date.month) \o <<"-">> \o Pad2(t.date.day)
\* new Date(dateStr) in a process whose zone is offset hours east of UTC
NewDate(dateStr, offset) ==
  LET written == [date |-> dateStr.date, hour |-> dateStr.hour]
      utc == IF dateStr.zone = "Z" THEN written
             ELSE ShiftHours(written, 0 - offset)
  IN IF dateStr.zone \in {"Z", "none"}
     THEN [valid |-> TRUE, date |-> utc.date, hour |-> utc.hour]
     ELSE [valid |-> FALSE]

\* The fields the upload stores (time_str, minute and day_of_week left out).
extractDateComponents(dateStr, offset) ==
  LET date == NewDate(dateStr, offset)
      local == ShiftHours(date, offset)
  IN IF ~date.valid THEN Null
     ELSE Obj([date_str |-> ToISODate(date),
               year |-> local.date.year,
               month |-> local.date.month,
               day |-> local.date.day,
               hour |-> local.hour])

SampleDates ==
  {[year |-> 2023, month |-> 5, day |-> 15],
   [year |-> 2023, month |-> 12, day |-> 31],
   [year |-> 2024, month |-> 1, day |-> 1],
   [year |-> 2024, month |-> 2, day |-> 29]}
CreatedAtInputs ==
  [zone : {"Z", "none", "unreadable"}, date : SampleDates, hour : 0..23]
TimezoneOffsets == {-5, 0, 2}

ExtractComponents ==
  /\ \E created_at \in CreatedAtInputs, offset \in TimezoneOffsets :
       ext' = [created_at |-> created_at, offset |-> offset,
               components |-> extractDateComponents(created_at, offset)]
  /\ UNCHANGED Pipeline

SpecDateComponents == Init /\ [][ExtractComponents]_vars

(***************************************************************************)
(* Vocabulary of the properties.                                            *)
(***************************************************************************)
Outcomes(stage) ==
  CASE stage = "Preprocess" -> PreprocessOutcomes
    [] stage = "ExtractFilters" -> FilterExtractionOutcomes
    [] stage = "Retrieve" -> RetrievalOutcomes
    [] stage = "Generate" -> GenerationOutcomes
    [] stage = "Complete" -> CompletionOutcomes
StageOrder == <<"Preprocess", "ExtractFilters", "Retrieve", "Generate", "Complete">>
TracedStages == {"Preprocess", "ExtractFilters", "Retrieve", "Generate"}
StagesOf(f) == [i \in 1..Len(history[f]) |-> history[f][i].stage]
IsPrefix(s, t) == Len(s) <= Len(t) /\ s = SubSeq(t, 1, Len(s))
HasRun(f, stage) == \E i \in 1..Len(history[f]) : history[f][i].stage = stage
LastEntry(f) == history[f][Len(history[f])]
JustRan(f, stage) == history[f] # <<>> /\ LastEntry(f).stage = stage
Pending(f) == \E t \in Topics : \E ev \in topics[t] : ev.traceId = f
\* The valid events waiting for a stage, and what its handler does with one.
Inputs(stage) ==
  {ev \in topics[subscribes[stage]] : InputValid(stage, ev.data)}
Run(stage, ev, out) == StageResult(stage, ev.data, env.OPENAI_API_KEY, out)

(***************************************************************************)
(* C1: every accepted message eventually yields a response-generated       *)
(* payload with a non-empty response, whatever the providers do; the       *)
(* apology appears only when generation itself fails; no flow is dropped.  *)
(* Stated on finite runs: no event is rejected, no exception escapes, a    *)
(* flow with nothing pending has been answered, every answer is non-empty, *)
(* and Generate answers with the apology only if generateResponse raised  *)
(* or the provider client could not be made.                                *)
(***************************************************************************)
GenerationItselfFails(out) ==
  \/ ~Truthy(env.OPENAI_API_KEY)
  \/ generateResponse(<<>>, <<>>, out.llm).k = "throw"
C1_AnswerAlways ==
  /\ halted = {}
  /\ uncaught = {}
  /\ \A f \in 1..started : ~Pending(f) => HasRun(f, "Generate")
  /\ \A ev \in topics["response-generated"] : ev.data.response \notin {UNDEF, ""}
  /\ \A ev \in Inputs("Generate") : \A out \in GenerationOutcomes :
       Run("Generate", ev, out).emits[1].data.response = Apology
         => GenerationItselfFails(out)

(***************************************************************************)
(* C2: on every valid input and under every failure of its logic, each of  *)
(* Preprocess, ExtractFilters, Retrieve and Generate returns without       *)
(* raising and emits exactly one event, on its downstream topic; Complete  *)
(* emits nothing and does not raise.                                        *)
(***************************************************************************)
C2_StageTotal ==
  [][\A f \in Flows :
       history'[f] # history[f] =>
         LET st == history'[f][Len(history'[f])].stage
         IN /\ uncaught' = {}
            /\ \A t \in Topics :
                 Cardinality(topics'[t]) + (IF t = subscribes[st] THEN 1 ELSE 0)
                   = Cardinality(topics[t]) + (IF t \in emits[st] THEN 1 ELSE 0)]_vars
C2_Witness ==
  \E f \in Flows :
    /\ JustRan(f, "Generate")
    /\ caught[f] = ProviderError
    /\ Cardinality(topics["response-generated"]) = 1

(***************************************************************************)
(* C3: within a flow the stages run in the order Preprocess,               *)
(* ExtractFilters, Retrieve, Generate, Complete, each at most once, and a  *)
(* pending event of the flow waits on the topic of the next stage.         *)
(***************************************************************************)
C3_StageOrder ==
  /\ \A f \in Flows : IsPrefix(StagesOf(f), StageOrder)
  /\ \A t \in Topics : \A ev \in topics[t] :
       /\ Len(history[ev.traceId]) < Len(StageOrder)
       /\ t = subscribes[StageOrder[Len(history[ev.traceId]) + 1]]
C3_Witness == \E f \in Flows : StagesOf(f) = StageOrder

(***************************************************************************)
(* C4: the correlation id Preprocess generated for a flow is the one every *)
(* later stage carries forward and every later payload of the flow holds,  *)
(* on normal and on fallback paths.                                         *)
(***************************************************************************)
C4_FlowIdCarried ==
  /\ \A f \in Flows : \A i \in 1..Len(history[f]) :
       /\ history[f][1].stage = "Preprocess"
       /\ history[f][1].id \in FlowIds
       /\ history[f][i].id = history[f][1].id
  /\ \A t \in Topics \ {"message-received"} : \A ev \in topics[t] :
       /\ history[ev.traceId] # <<>>
       /\ ev.data._handidFlowId = history[ev.traceId][1].id
C4_Witness ==
  \E f \in Flows :
    /\ JustRan(f, "Generate")
    /\ caught[f] # NoError
    /\ \E ev \in topics["response-generated"] :
         ev.traceId = f /\ ev.data._handidFlowId = "flow-2"

(***************************************************************************)
(* C5: every flow whose Generate stage ran eventually completes, and its   *)
(* completion calls endAgentTracing with the flow's correlation id.        *)
(***************************************************************************)
Closed(f) ==
  /\ JustRan(f, "Complete")
  /\ LastEntry(f).ends = <<history[f][1].id>>
C5_Completes == \A f \in Flows : HasRun(f, "Generate") ~> Closed(f)
C5_Witness ==
  \E f \in Flows : HasRun(f, "Generate") /\ Closed(f) /\ endCalls[history[f][1].id] > 0

(***************************************************************************)
(* C6: a tracing failure in a stage leaves the payload the stage emits     *)
(* unchanged: it emits what it emits when tracing succeeds.                 *)
(***************************************************************************)
C6_TracingTransparent ==
  \A stage \in TracedStages : \A ev \in Inputs(stage) : \A out \in Outcomes(stage) :
    Run(stage, ev, out).emits = Run(stage, ev, [out EXCEPT !.tr = "ok"]).emits

IdReaders == {"ExtractFilters", "Retrieve", "Generate", "Complete"}
NoIdInputs(stage) == {ev \in Inputs(stage) : ~Truthy(ev.data._handidFlowId)}
WithId(ev) == [ev EXCEPT !.data._handidFlowId = "flow-1"]
RetrieveThrew(f) == JustRan(f, "Retrieve") /\ caught[f] = ProviderError
Answered(f) ==
  HasRun(f, "Generate") /\ JustRan(f, "Complete") /\ LastEntry(f).answered
C9_RetrieveFallback ==
  /\ [](\A f \in Flows :
          RetrieveThrew(f) =>
            \E ev \in topics["context-retrieved"] :
              ev.traceId = f /\ ev.data.context = Arr(<<>>))
  /\ \A f \in Flows : RetrieveThrew(f) ~> Answered(f)
C9_Witness ==
  \E f \in Flows :
    /\ RetrieveThrew(f)
    /\ \E ev \in topics["context-retrieved"] :
         ev.traceId = f /\ ev.data.context = Arr(<<>>)

(***************************************************************************)
(* C10: when the provider returns no usable content (no choice, or a first *)
(* choice whose content is null or empty) Generate emits the fixed "could  *)
(* not generate" text, with no error recorded and without the apology.     *)
(***************************************************************************)
NoUsableContent ==
  {Completion(<<>>), Completion(<<Choice(Null)>>), Completion(<<Choice(Str(""))>>)}
C10_NoUsableContent ==
  Truthy(env.OPENAI_API_KEY) =>
    \A ev \in Inputs("Generate") : \A llm \in NoUsableContent :
      LET r == Run("Generate", ev, [llm |-> llm, tr |-> "ok"])
      IN /\ r.caught = NoError
         /\ r.emits[1].data.response = CouldNotGenerate
         /\ r.emits[1].data.error = UNDEF

(***************************************************************************)
(* C11: when the logic of Generate raises, the stage emits                 *)
(* response-generated with the apology as response and the error in the    *)
(* error field; when it does not raise, the response is the text the       *)
(* model wrote and there is no error field.                                 *)
(***************************************************************************)
ModelText(llm) ==
  IF llm.k = "response" /\ Len(llm.choices) > 0
     /\ IsString(llm.choices[1].message.content)
  THEN llm.choices[1].message.content.s
  ELSE UNDEF
C11_GenerateResult ==
  \A ev \in Inputs("Generate") : \A out \in GenerationOutcomes :
    LET r == Run("Generate", ev, out)
        d == r.emits[1].data
    IN /\ Len(r.emits) = 1 /\ r.emits[1].topic = "response-generated"
       /\ r.caught # NoError => d.response = Apology /\ d.error = r.caught
       /\ r.caught = NoError => d.response = ModelText(out.llm) /\ d.error = UNDEF
(***************************************************************************)
(* C11, as the code has it: when the logic of Generate raises, the stage   *)
(* emits the apology with the error recorded; when it does not raise,      *)
(* there is no error field and the response is the text the model wrote,   *)
(* or the fixed "could not generate" text when that text is null or empty. *)
(***************************************************************************)
C11_GenerateOutcome ==
  \A ev \in Inputs("Generate") : \A out \in GenerationOutcomes :
    LET r == Run("Generate", ev, out)
        d == r.emits[1].data
    IN /\ Len(r.emits) = 1 /\ r.emits[1].topic = "response-generated"
       /\ r.caught # NoError => d.response = Apology /\ d.error = r.caught
       /\ r.caught = NoError =>
            /\ d.error = UNDEF
            /\ d.response = IF ModelText(out.llm) \in {UNDEF, ""}
                            THEN CouldNotGenerate ELSE ModelText(out.llm)
C11_Witness ==
  \E f \in Flows : \E ev \in topics["response-generated"] :
    /\ ev.traceId = f /\ JustRan(f, "Generate") /\ caught[f] = NoError
    /\ ev.data.response = CouldNotGenerate /\ ev.data.error = UNDEF

(***************************************************************************)
(* C12: when the logic of ExtractFilters raises (the provider fails, the   *)
(* API key is missing), the stage emits fetch-context without dateFilters, *)
(* without metadataFilters and with the processedMessage it received.      *)
(***************************************************************************)
C12_ExtractFallback ==
  \A ev \in Inputs("ExtractFilters") : \A out \in FilterExtractionOutcomes :
    LET r == Run("ExtractFilters", ev, out)
        d == r.emits[1].data
    IN r.caught # NoError =>
         /\ Len(r.emits) = 1 /\ r.emits[1].topic = "fetch-context"
         /\ d.dateFilters = Undef /\ d.metadataFilters = Undef
         /\ d.processedMessage = ev.data.processedMessage
C12_Witness ==
  \E f \in Flows : \E ev \in topics["fetch-context"] :
    /\ ev.traceId = f /\ JustRan(f, "ExtractFilters")
    /\ caught[f] \in {ProviderError, MissingKey}
    /\ ev.data.dateFilters = Undef /\ ev.data.metadataFilters = Undef

(***************************************************************************)
(* C13: Preprocess emits as processedMessage the message without its       *)
(* leading and trailing white space on the normal path, and the message    *)
(* unchanged when its logic raises; originalMessage is the inbound message *)
(* in both cases.                                                           *)
(***************************************************************************)
Blank(s) == \A i \in 1..Len(s) : s[i] = " "
IsTrimOf(p, m) ==
  /\ p = <<>> \/ (p[1] # " " /\ p[Len(p)] # " ")
  /\ \E i \in 0..Len(m) : \E j \in i..Len(m) :
       /\ p = SubSeq(m, i + 1, j)
       /\ Blank(SubSeq(m, 1, i)) /\ Blank(SubSeq(m, j + 1, Len(m)))
EmptyResponse(llm) == llm.k = "response" /\ Len(llm.choices) = 0
ParseFailure(llm) ==
  /\ llm.k = "response" /\ Len(llm.choices) > 0
  /\ llm.choices[1].message.content = GarbageText
C14_NeverRaises ==
  \A ev \in Inputs("ExtractFilters") : \A llm \in FilterCompletions :
    LET r == extractFilters(ev.data.processedMessage, llm)
    IN /\ r.k = "return"
       /\ (EmptyResponse(llm) \/ ParseFailure(llm)) =>
            r = Return(NoFilters(ev.data.processedMessage))
(***************************************************************************)
(* C14, as the code has it: extractFilters raises only when the call to    *)
(* the provider itself fails, and the error is the provider's; when the    *)
(* answer does not parse or the response is empty it returns no            *)
(* dateFilters, no metadataFilters and the query unchanged.                 *)
(***************************************************************************)
C14_ExtractDefaults ==
  \A ev \in Inputs("ExtractFilters") : \A llm \in FilterCompletions :
    LET r == extractFilters(ev.data.processedMessage, llm)
    IN /\ r.k = "throw" <=> llm = ProviderThrows
       /\ r.k = "throw" => r.e = ProviderError
       /\ (EmptyResponse(llm) \/ ParseFailure(llm)) =>
            r = Return(NoFilters(ev.data.processedMessage))
C14_Witness ==
  \E f \in Flows : \E ev \in topics["fetch-context"] :
    /\ ev.traceId = f /\ JustRan(f, "ExtractFilters") /\ caught[f] = NoError
    /\ ev.data.dateFilters = Undef /\ ev.data.metadataFilters = Undef
    /\ ev.data.processedMessage = <<"a">>

(***************************************************************************)
(* C15: a field a stage has put in the payload (originalMessage,           *)
(* processedMessage, timestamp, the correlation id, dateFilters,           *)
(* metadataFilters, context) is in every later payload of the flow: each   *)
(* stage hands on every such field its input holds.                         *)
(***************************************************************************)
StructuredFields == {"dateFilters", "metadataFilters", "context"}
PayloadFields ==
  {"originalMessage", "processedMessage", "timestamp", "_handidFlowId"}
  \cup StructuredFields
Holds(d, k) ==
  /\ k \in DOMAIN d
  /\ IF k \in StructuredFields THEN d[k].t # "undefined"
     ELSE IF k \in {"timestamp", "_handidFlowId"} THEN d[k] # UNDEF
     ELSE TRUE
C15_FieldsKept ==
  \A stage \in TracedStages : \A ev \in Inputs(stage) :
    \A out \in Outcomes(stage) :
      LET r == Run(stage, ev, out)
      IN \A k \in PayloadFields :
           Holds(ev.data, k) => Holds(r.emits[1].data, k)

(***************************************************************************)
(* The reference extractors: what a query contains, said without the       *)
(* extractors' own matching.                                                *)
(***************************************************************************)
\* s is written YYYY-MM-DD
IsIsoDate(s) ==
  /\ Len(s) = 10
  /\ \A k \in {1, 2, 3, 4, 6, 7, 9, 10} : IsDigit(s[k])
  /\ s[5] = "-" /\ s[8] = "-"
IsoDatesIn(q) == {i \in 1..(Len(q) - 9) : IsIsoDate(SubSeq(q, i, i + 9))}
DateExtracted == ext.pieces > 0 /\ ext.dateFilters # Undef
DateKeys == IF ext.dateFilters = Null THEN {} ELSE DOMAIN ext.dateFilters.v

(* C16: for every query containing an ISO date substring (YYYY-MM-DD),     *)
(* extractDateFilters returns exactly that date (the leftmost one when     *)
(* there are several) as date_str and sets no other date predicate,        *)
(* whatever relative keywords, month names or years the query contains.    *)
C16_ExactDate ==
  (DateExtracted /\ IsoDatesIn(ext.query) # {}) =>
    /\ ext.dateFilters # Null
    /\ DateKeys = {"date_str"}
    /\ \E i \in IsoDatesIn(ext.query) :
         /\ \A j \in IsoDatesIn(ext.query) : i <= j
         /\ ext.dateFilters.v.date_str = Str(SubSeq(ext.query, i, i + 9))
C16_Witness ==
  /\ DateExtracted
  /\ ext.query = <<"y", "e", "s", "t", "e", "r", "d", "a", "y">> \o <<"2", "0", "2", "3", "-", "0", "5", "-", "1", "5">> \o <<"m", "a", "y">>
  /\ ext.dateFilters = Obj([date_str |-> Str(<<"2", "0", "2", "3", "-", "0", "5", "-", "1", "5">>)])

\* The months whose name the query contains in some letter case, by number.
MonthsNamedIn(q) ==
  {i \in 1..12 : Includes(ToLowerCase(q), monthNames[i])}
\* The positions of the 4-digit numbers beginning with "20" in the query.
TwentiesIn(q) ==
  {i \in 1..(Len(q) - 3) :
     q[i] = "2" /\ q[i + 1] = "0" /\ IsDigit(q[i + 2]) /\ IsDigit(q[i + 3])}
\* ... of those that stand as a word of their own.
StandaloneTwentiesIn(q) ==
  {i \in TwentiesIn(q) :
     /\ i > 1 => ~IsWordChar(q[i - 1])
     /\ i + 3 < Len(q) => ~IsWordChar(q[i + 4])}
YearNumber(q, i) ==
  1000 * DigitValue(q[i]) + 100 * DigitValue(q[i + 1])
    + 10 * DigitValue(q[i + 2]) + DigitValue(q[i + 3])
NamesRelativeDay(q) ==
  Includes(ToLowerCase(q), Yesterday) \/ Includes(ToLowerCase(q), Today)
NamesLastWeek(q) == Includes(ToLowerCase(q), LastWeek)

(* C17: for every query containing a month name and a 4-digit year         *)
(* beginning with "20", extractDateFilters sets both month (the number of  *)
(* a named month) and year (a year the query contains); for a query        *)
(* containing only a month name it sets month alone.                       *)
C17_MonthYear ==
  (DateExtracted /\ MonthsNamedIn(ext.query) # {}) =>
    /\ ext.dateFilters # Null
    /\ "month" \in DateKeys
    /\ \E m \in MonthsNamedIn(ext.query) : ext.dateFilters.v.month = Num(m)
    /\ IF TwentiesIn(ext.query) # {}
       THEN /\ DateKeys = {"month", "year"}
            /\ \E i \in TwentiesIn(ext.query) :
                 ext.dateFilters.v.year = Num(YearNumber(ext.query, i))
       ELSE DateKeys = {"month"}

(* C17, as the code has it: for every query that contains no ISO date and  *)
(* none of "yesterday", "today", "last week", and that contains a month    *)
(* name, extractDateFilters sets month to the number of the first month of *)
(* the calendar whose name occurs; it sets year as well, to the leftmost   *)
(* such number, exactly when the query contains a 4-digit number beginning *)
(* with "20" that stands as a word of its own, and month alone otherwise.  *)
C17_MonthThenYear ==
  ( /\ DateExtracted
    /\ IsoDatesIn(ext.query) = {}
    /\ ~NamesRelativeDay(ext.query) /\ ~NamesLastWeek(ext.query)
    /\ MonthsNamedIn(ext.query) # {} ) =>
    /\ ext.dateFilters # Null
    /\ "month" \in DateKeys
    /\ \E m \in MonthsNamedIn(ext.query) :
         /\ \A n \in MonthsNamedIn(ext.query) : m <= n
         /\ ext.dateFilters.v.month = Num(m)
    /\ IF StandaloneTwentiesIn(ext.query) # {}
       THEN /\ DateKeys = {"month", "year"}
            /\ \E i \in StandaloneTwentiesIn(ext.query) :
                 /\ \A j \in StandaloneTwentiesIn(ext.query) : i <= j
                 /\ ext.dateFilters.v.year = Num(YearNumber(ext.query, i))
       ELSE DateKeys = {"month"}
C17_Witness ==
  /\ DateExtracted
  /\ ext.query = <<"m", "a", "y">> \o <<" ">> \o <<"2", "0", "2", "1">>
  /\ ext.dateFilters = Obj([month |-> Num(5), year |-> Num(2021)])

MetaExtracted == ext.pieces > 0 /\ ext.metadataFilters # Undef
\* The value extractMetadataFilters gave a key, Undef when it left it unset.
MetaValue(key) ==
  IF ext.metadataFilters = Null THEN Undef ELSE Get(ext.metadataFilters.v, key)
Mentions(q, w) == Includes(ToLowerCase(q), w)

(* C18: for every query, extractMetadataFilters sets is_correct = false    *)
(* when the query contains "incorrect" or "wrong", is_correct = true when  *)
(* it contains "correct" with neither of them present, and leaves it unset *)
(* when it contains none of the three; matching ignores letter case.       *)
C18_Correctness ==
  MetaExtracted =>
    MetaValue("is_correct") =
      IF Mentions(ext.query, Incorrect) \/ Mentions(ext.query, Wrong)
      THEN Bool(FALSE)
      ELSE IF Mentions(ext.query, Correct) THEN Bool(TRUE) ELSE Undef

\* The first keyword of the list that the query contains.
FirstMentioned(q, list) ==
  list[CHOOSE i \in 1..Len(list) :
         /\ Mentions(q, list[i])
         /\ \A j \in 1..(i - 1) : ~Mentions(q, list[j])]

(* C19: in extractMetadataFilters the first match per category wins: when  *)
(* a query contains environment keywords, environment is the first keyword *)
(* of the list production, development, staging, test that occurs in it,   *)
(* and likewise status for the list success, failed, error, pending.       *)
C19_FirstMatchWins ==
  MetaExtracted =>
    /\ (\E i \in 1..Len(environments) : Mentions(ext.query, environments[i]))
         => MetaValue("environment") = Str(FirstMentioned(ext.query, environments))
    /\ (\E i \in 1..Len(statuses) : Mentions(ext.query, statuses[i]))
         => MetaValue("status") = Str(FirstMentioned(ext.query, statuses))

(* C20: date filters are mutually exclusive and extracted in a fixed       *)
(* priority order: for every query extractDateFilters returns at most one  *)
(* of exact date_str, relative-keyword date_str, dateRange, month with or  *)
(* without year, bare year, and it is the kind of highest priority that    *)
(* the query matches, in the order exact date > yesterday/today > last     *)
(* week > month name > bare year; a query matching none gets no filter.    *)
C20_Priority ==
  DateExtracted =>
    IF IsoDatesIn(ext.query) # {}
    THEN /\ DateKeys = {"date_str"}
         /\ \E i \in IsoDatesIn(ext.query) :
              ext.dateFilters.v.date_str = Str(SubSeq(ext.query, i, i + 9))
    ELSE IF NamesRelativeDay(ext.query)
    THEN /\ DateKeys = {"date_str"}
         /\ \/ /\ Mentions(ext.query, Yesterday)
               /\ ext.dateFilters.v.date_str = Str(ext.now.yesterday)
            \/ /\ Mentions(ext.query, Today)
               /\ ext.dateFilters.v.date_str = Str(ext.now.today)
    ELSE IF NamesLastWeek(ext.query)
    THEN /\ DateKeys = {"dateRange"}
         /\ ext.dateFilters.v.dateRange =
              Obj([start |-> Str(ext.now.weekAgo), end |-> Str(ext.now.today)])
    ELSE IF MonthsNamedIn(ext.query) # {}
    THEN "month" \in DateKeys /\ DateKeys \subseteq {"month", "year"}
    ELSE IF StandaloneTwentiesIn(ext.query) # {}
    THEN DateKeys = {"year"}
    ELSE ext.dateFilters = Null
C20_Witness ==
  /\ DateExtracted
  /\ ext.query = <<"2", "0", "2", "1">> \o <<"T", "o", "d", "a", "y">> \o <<"l", "a", "s", "t", " ", "w", "e", "e", "k">>
  /\ ext.dateFilters = Obj([date_str |-> Str(ext.now.today)])

(***************************************************************************)
(* The filter builders.                                                     *)
(***************************************************************************)
FiltersBuilt == "reference" \in DOMAIN ext
\* A filter that is absent or holds no predicate.
EmptyFilter(f) == f \in {Undef, Null} \/ (f.t = "object" /\ DOMAIN f.v = {})

(* C21: composing an empty or absent date filter with an empty or absent   *)
(* metadata filter yields no filter (null or undefined), never an empty    *)
(* predicate object, in the reference builder and in the Retrieve stage's  *)
(* builder alike, so that the retrieval query carries no filter.           *)
C21_EmptyIsNoFilter ==
  (FiltersBuilt /\ EmptyFilter(ext.dateFilters)
                /\ EmptyFilter(ext.metadataFilters)) =>
    /\ ext.reference = Null
    /\ ext.queryOptions # Undef => ext.queryOptions.filter = Undef
C21_Witness ==
  /\ FiltersBuilt
  /\ ext.dateFilters = Obj(<<>>) /\ ext.metadataFilters = Undef
  /\ ext.reference = Null
  /\ ext.queryOptions # Undef /\ ext.queryOptions.filter = Undef

\* The predicates a date filter and a metadata filter stand for, as
\* <<field, condition>> pairs: a range is an interval on date_str, every
\* other field an equality with its value.
PredicatesOf(f) ==
  IF EmptyFilter(f) THEN {}
  ELSE {IF k = "dateRange"
        THEN <<"date_str", Obj([gte |-> f.v.dateRange.v.start,
                                lte |-> f.v.dateRange.v.end])>>
        ELSE <<k, f.v[k]>> : k \in DOMAIN f.v}
\* The conjuncts of the filter the retrieval query carries.
ConjunctsOf(filter) ==
  IF filter = Undef THEN {}
  ELSE {filter.v.and[i] : i \in 1..Len(filter.v.and)}
\* The conjuncts of the reference builder's flat expression.
ReferenceConjunctsOf(expression) ==
  IF expression = Null THEN {}
  ELSE {<<k, expression.v[k]>> : k \in DOMAIN expression.v}

(* C22: the filter expression passed to the retrieval query is the         *)
(* conjunction of all the predicates of the date filter and the metadata   *)
(* filter: a date range becomes the interval start <= date <= end, an      *)
(* exact date, month or year an equality, each metadata field              *)
(* (environment, status, correctness) an equality; the expression is       *)
(* absent only when no predicate was extracted.  The reference builder's   *)
(* expression holds the same predicates.                                   *)
C22_Conjunction ==
  (FiltersBuilt /\ ext.queryOptions # Undef) =>
    LET predicates == PredicatesOf(ext.dateFilters)
                        \cup PredicatesOf(ext.metadataFilters)
    IN /\ ConjunctsOf(ext.queryOptions.filter) = predicates
       /\ ext.queryOptions.filter = Undef <=> predicates = {}
       /\ ReferenceConjunctsOf(ext.reference) = predicates


Tested(query) == "queried" \in DOMAIN ext /\ ext.query = query

(* C23: for the input "Show me failures from 2023-05-15" the deterministic *)
(* extractors return the date filter {date_str: "2023-05-15"} and the      *)
(* metadata filter {status: "failed"}, the combined filter is the AND of   *)
(* both, and retrieval runs with that filter.                              *)
C23_Scenario ==
  Tested(ShowMeFailures) =>
    /\ ext.dateFilters = Obj([date_str |-> Str(<<"2", "0", "2", "3", "-", "0", "5", "-", "1", "5">>)])
    /\ ext.metadataFilters = Obj([status |-> Str(<<"f", "a", "i", "l", "e", "d">>)])
    /\ ext.filterExpression =
         Obj([date_str |-> Str(<<"2", "0", "2", "3", "-", "0", "5", "-", "1", "5">>),
              status |-> Str(<<"f", "a", "i", "l", "e", "d">>)])
    /\ ext.queried # Undef =>
         /\ "filter" \in DOMAIN ext.queried.v
         /\ ext.queried.v.filter = ext.filterExpression

(* C23, as the code has it: for the input "Show me failures from           *)
(* 2023-05-15" the deterministic extractors return the date filter         *)
(* {date_str: "2023-05-15"} and no metadata filter ("failures" does not    *)
(* contain the keyword "failed"), the combined filter is the date          *)
(* predicate alone, and retrieval runs with that filter.                   *)
C23_ScenarioDateOnly ==
  Tested(ShowMeFailures) =>
    /\ ext.dateFilters = Obj([date_str |-> Str(<<"2", "0", "2", "3", "-", "0", "5", "-", "1", "5">>)])
    /\ ext.metadataFilters = Null
    /\ ext.filterExpression =
         Obj([date_str |-> Str(<<"2", "0", "2", "3", "-", "0", "5", "-", "1", "5">>)])
    /\ ext.queried # Undef =>
         /\ "filter" \in DOMAIN ext.queried.v
         /\ ext.queried.v.filter = ext.filterExpression
C23_Witness ==
  /\ Tested(ShowMeFailures)
  /\ ext.queried # Undef
  /\ ext.queried.v.filter = Obj([date_str |-> Str(<<"2", "0", "2", "3", "-", "0", "5", "-", "1", "5">>)])
  /\ ext.answer = QueryResults(Arr(<<>>))

(***************************************************************************)
(* The context Retrieve emits.                                              *)
(***************************************************************************)
Retrieved == "emits" \in DOMAIN ext
EmittedContext == ext.emits[1].data.context

(* C24: the context list emitted by Retrieve has at most 5 items and keeps *)
(* the order in which the store returned the matches: item i of the        *)
(* context is built from match i, with no re-ranking, dropping or          *)
(* duplication.                                                            *)
C24_ContextOrder ==
  Retrieved =>
    /\ EmittedContext.t = "array"
    /\ Len(EmittedContext.v) <= 5
    /\ ext.caught = NoError =>
         /\ Len(EmittedContext.v) = Len(ext.matches)
         /\ \A i \in 1..Len(ext.matches) :
              LET item == EmittedContext.v[i]
                  md == ext.matches[i].metadata
              IN /\ item.score = ext.matches[i].score
                 /\ \A k \in {"input", "output", "created_at", "problem",
                               "solution", "type"} : item[k] = Get(md, k)
C24_Witness ==
  /\ Retrieved /\ ext.caught = NoError
  /\ Len(ext.matches) = 5
  /\ ext.matches[1] # ext.matches[2] /\ ext.matches[2] # ext.matches[5]
  /\ Len(EmittedContext.v) = 5

(* C25: a store match whose metadata lacks optional fields (input, output, *)
(* created_at, or the entry fields on an insight record) is tolerated:     *)
(* Retrieve surfaces each missing field as the empty string, and the       *)
(* payload it emits is accepted by the Generate stage's input schema, so   *)
(* that no flow is halted by a missing metadata field.                     *)
C25_MissingFieldsTolerated ==
  (Retrieved /\ ext.caught = NoError) =>
    /\ \A i \in 1..Len(ext.matches) :
         \A k \in {"input", "output", "created_at"} :
           k \notin DOMAIN ext.matches[i].metadata
             => EmittedContext.v[i][k] = Str("")
    /\ GenerationInputValid(ext.emits[1].data)

Stored(f) == state[f] # Undef

(* C29: every flow that produces a final response eventually triggers the  *)
(* Response Handler, which stores the conversation (query, response,       *)
(* timestamp, hasError) under last_conversation: the topic the Response    *)
(* Handler subscribes to is emitted by some stage of the pipeline.         *)
C29_ConversationStored ==
  \A f \in Flows : HasRun(f, "Generate") ~> Stored(f)

(***************************************************************************)
(* The formatter.                                                           *)
(***************************************************************************)
\* The values interpolated in a block of the formatted text.
Interpolated(block) == {block[l][2] : l \in {k \in 1..Len(block) : Len(block[k]) = 2}}
FixedText == <<<<<<"No relevant previous conversations found.">>>>>>

(* C27: for every context item built from a stored record's metadata, the  *)
(* text formatContext produces contains the item's input and output        *)
(* verbatim, and for an insight item its problem and solution, with no     *)
(* truncation; an empty or absent context list yields the fixed text       *)
(* "No relevant previous conversations found.".                            *)
C27_FormatKeeps ==
  Retrieved =>
    /\ ext.formatted.k = "return"
    /\ formatContext(Undef) = Return(FixedText)
    /\ IF Len(EmittedContext.v) = 0
       THEN ext.formatted.v = FixedText
       ELSE /\ Len(ext.formatted.v) = Len(EmittedContext.v)
            /\ \A i \in 1..Len(EmittedContext.v) :
                 LET item == EmittedContext.v[i]
                     kept == IF item.type = Str("insight")
                             THEN {item.problem, item.solution}
                             ELSE {item.input, item.output}
                 IN kept \subseteq Interpolated(ext.formatted.v[i])
C27_Witness ==
  /\ Retrieved /\ ext.caught = NoError
  /\ Len(ext.matches) = 2
  /\ Get(ext.matches[1].metadata, "type") = Str("insight")
  /\ Get(ext.matches[2].metadata, "input") = Str("q")
  /\ Str("s") \in Interpolated(ext.formatted.v[1])
  /\ Str("r") \in Interpolated(ext.formatted.v[2])

(***************************************************************************)
(* The tracing wrapper.                                                     *)
(***************************************************************************)
Wrapped == "traced" \in DOMAIN ext

(* C28: the function traceWithHandit returns yields the same result as the *)
(* callback for the same arguments and raises whenever the callback        *)
(* raises; it tags the result with the correlation id only if the result   *)
(* is a structured value (a non-null object) and a correlation id is       *)
(* present, and leaves every other result (string, number, null)           *)
(* untouched.                                                              *)
C28_WrapTransparent ==
  Wrapped =>
    LET cb == ext.callback
        out == ext.traced.out
    IN IF cb.k = "throw" THEN out.k = "throw"
       ELSE /\ out.k = "return"
            /\ IF cb.v.t \in {"object", "array"} /\ ext.flowId \notin {UNDEF, ""}
               THEN out.v = [cb.v EXCEPT !._handidFlowId = ext.flowId]
               ELSE out.v = cb.v

(***************************************************************************)
(* Concurrent flows.                                                        *)
(***************************************************************************)
\* The correlation id a flow got from Preprocess.
IdIn(h, f) == IF h[f] # <<>> THEN h[f][1].id ELSE UNDEF
Other(f) == 3 - f
EventsOf(tp, f, t) == {ev \in tp[t] : ev.traceId = f}
\* The message a payload carries.
MessageIn(d) ==
  IF "message" \in DOMAIN d THEN d.message ELSE d.originalMessage

C31_BoundedEmbedding ==
  /\ [](UploadRunning => ext.outstanding <= 100)
  /\ [][(UploadRunning /\ ext'.outstanding > ext.outstanding)
          => /\ ext.outstanding = 0
             /\ ext'.pc = "embedding" => Len(ext.upserts) = ext.i]_vars

RECURSIVE Concat(_)
Concat(seqs) == IF seqs = <<>> THEN <<>> ELSE Head(seqs) \o Concat(Tail(seqs))
LoopOver == UploadRunning /\ ext.pc \in {"insights-embedding", "done"}

(* C37: entry batching is a partition: the batch loop upserts every        *)
(* processed entry exactly once, in input order, in ceil(n/100) batches of *)
(* 1 to 100 entries each; with no entry no upsert is issued.               *)
C37_BatchPartition ==
  UploadRunning =>
    LET n == Len(ext.processedEntries)
        upserted == Concat(ext.upserts)
        count == Len(ext.upserts)
    IN /\ \A b \in 1..count : Len(ext.upserts[b]) \in 1..100
       /\ Len(upserted) <= n
       /\ \A k \in 1..Len(upserted) : upserted[k] = ext.processedEntries[k]
       /\ LoopOver =>
            /\ Len(upserted) = n
            /\ count * 100 >= n /\ (count - 1) * 100 < n
            /\ n = 0 => ext.upserts = <<>>
C37_Witness ==
  /\ LoopOver
  /\ Len(ext.processedEntries) = 201
  /\ Len(ext.upserts) = 3 /\ Len(ext.upserts[3]) = 1

(***************************************************************************)
(* Credentials, payload shapes and frame conditions of the stages.         *)
(***************************************************************************)
(* C32: a missing API credential is never a per-request failure: with      *)
(* OPENAI_API_KEY unset, no handler of ExtractFilters, Retrieve or         *)
(* Generate finds the credential missing while it handles a request.       *)
C32_NoPerRequestFailure ==
  ~Truthy(env.OPENAI_API_KEY) =>
    \A f \in Flows :
      ~(/\ caught[f] = MissingKey
        /\ LastEntry(f).stage \in {"ExtractFilters", "Retrieve", "Generate"})

\* z.record(z.any()).optional(): an object, or absent.
IsOptionalRecord(v) == v = Undef \/ v.t = "object"

(* C33: every payload ExtractFilters emits to fetch-context satisfies the  *)
(* input schema of Retrieve, whatever object the LLM returns in the shape  *)
(* its prompt requests (null filters included): no flow is halted by       *)
(* input validation between ExtractFilters and Retrieve.                   *)
C33_FetchContextAccepted ==
  /\ \A ev \in topics["fetch-context"] :
       /\ ev.data.originalMessage \in Seq(Chars)
       /\ ev.data.processedMessage \in Seq(Chars)
       /\ ev.data.timestamp # UNDEF
       /\ IsOptionalRecord(ev.data.dateFilters)
       /\ IsOptionalRecord(ev.data.metadataFilters)
  /\ \A h \in halted : h.stage # "Retrieve"

NewEvents == UNION {topics'[u] \ topics[u] : u \in Topics}
HandlerRanOn(t, ev) ==
  ev \notin topics'[t] /\ history'[ev.traceId] # history[ev.traceId]

(* C35: originalMessage and timestamp are frame-preserved: Preprocess      *)
(* emits the message it received as originalMessage (and the timestamp it  *)
(* received, when there is one), and every payload that ExtractFilters,    *)
(* Retrieve and Generate emit, on normal and fallback paths, carries the   *)
(* originalMessage and the timestamp of the payload the stage received.    *)
C35_FramePreserved ==
  [][/\ \A ev \in topics["message-received"] :
          HandlerRanOn("message-received", ev) =>
            /\ NewEvents # {}
            /\ \A e \in NewEvents :
                 /\ e.data.originalMessage = ev.data.message
                 /\ IF ev.data.timestamp # UNDEF
                    THEN e.data.timestamp = ev.data.timestamp
                    ELSE e.data.timestamp # UNDEF
     /\ \A t \in {"preprocess-complete", "fetch-context", "context-retrieved"} :
          \A ev \in topics[t] :
            HandlerRanOn(t, ev) =>
              /\ NewEvents # {}
              /\ \A e \in NewEvents :
                   /\ e.traceId = ev.traceId
                   /\ e.data.originalMessage = ev.data.originalMessage
                   /\ e.data.timestamp = ev.data.timestamp]_vars
C35_Witness ==
  \E e \in topics["response-generated"] :
    /\ JustRan(e.traceId, "Generate")
    /\ Len(history[e.traceId]) = 4
    /\ e.data.response = Apology
    /\ e.data.originalMessage = <<" ", "a", " ">>
    /\ e.data.processedMessage = <<"a">>
    /\ e.data.timestamp = "t0"

\* The fields the deterministic extractors can put in a filter.
ExtractableFields ==
  {"date_str", "dateRange", "month", "year", "environment", "status", "is_correct"}
FieldsOf(f) == IF EmptyFilter(f) THEN {} ELSE DOMAIN f.v

(* C36: the Retrieve stage's filter builder and the reference builder are  *)
(* equivalent on the filters the extractors can produce: one returns no    *)
(* filter exactly when the other does, and otherwise both constrain the    *)
(* same fields to the same values.                                          *)
C36_BuildersEquivalent ==
  ( /\ FiltersBuilt /\ ext.queryOptions # Undef
    /\ FieldsOf(ext.dateFilters) \cup FieldsOf(ext.metadataFilters)
         \subseteq ExtractableFields )
  => /\ ext.queryOptions.filter = Undef <=> ext.reference = Null
     /\ ConjunctsOf(ext.queryOptions.filter) = ReferenceConjunctsOf(ext.reference)

(***************************************************************************)
(* The date metadata of ingestion.                                          *)
(***************************************************************************)
ComponentsExtracted == "components" \in DOMAIN ext /\ ext.components # Null
TwoDigits(s, i) == 10 * DigitValue(s[i]) + DigitValue(s[i + 1])

(* C38: the date metadata stored at ingestion is self-consistent: for      *)
(* every parseable created_at, the year, month and day returned by         *)
(* extractDateComponents are the year, month and day of the date_str it    *)
(* returns.                                                                 *)
C38_DateConsistent ==
  ComponentsExtracted =>
    LET c == ext.components.v
    IN /\ IsIsoDate(c.date_str)
       /\ c.year = YearNumber(c.date_str, 1)
       /\ c.month = TwoDigits(c.date_str, 6)
       /\ c.day = TwoDigits(c.date_str, 9)
====
